---- MODULE Spec2Model ----
(***************************************************************************)
(* Feature de-duplication and weighted priority scoring of onelens.        *)
(*                                                                         *)
(* Text.  A Python str is a sequence of one-character strings.             *)
(*                                                                         *)
(* Numbers.  Python floats are read as exact rationals [n, d] (d > 0); a   *)
(* value written to a DECIMAL(4,1) column is an integer count of tenths,   *)
(* rounded the way PostgreSQL rounds a numeric (half away from zero).      *)
(***************************************************************************)
EXTENDS Integers, Sequences, FiniteSets, TLC

(***************************************************************************)
(* Bounds of the model.                                                    *)
(***************************************************************************)
MaxRows == 3
MaxRequests == 4
\* uploaded RFP documents
MaxDocuments == 1
\* features plus counted requests up to which POST /rfp/process is explored
MaxCorpus == 4
\* words of a drawn question
MaxWords == 2
\* embeddings in the list a matcher call searches, features in its table
MaxEmbeddings == 2
\* rows of the features table the feature endpoints fill
MaxFeatures == 2
\* request handlers in flight at the same time
MaxHandlers == 2
\* analysis reports stored
MaxReports == 1
\* the latest hour the clock of the cache reaches
MaxClock == 24

\* a NULL enum column; a nullable numeric column holds << >> or <<v>>
None == "None"
Null == << >>
Some(v) == <<v>>
IsNull(x) == x = << >>
Val(x) == x[1]

(***************************************************************************)
(* Exact rational arithmetic.                                              *)
(***************************************************************************)
Rat(n, d) == [n |-> n, d |-> d]
RatInt(k) == Rat(k, 1)
RECURSIVE Gcd(_, _)
Gcd(a, b) == IF b = 0 THEN a ELSE Gcd(b, a % b)
Abs(k) == IF k < 0 THEN -k ELSE k
\* the rational in lowest terms, so that equal values are equal records
RatNorm(a) ==
    LET g == Gcd(Abs(a.n), a.d)
    IN  IF a.n = 0 THEN Rat(0, 1) ELSE Rat(a.n \div g, a.d \div g)
RatAdd(a, b) == RatNorm(Rat(a.n * b.d + b.n * a.d, a.d * b.d))
RatMul(a, b) == RatNorm(Rat(a.n * b.n, a.d * b.d))
RatEq(a, b) == a.n * b.d = b.n * a.d
RatLe(a, b) == a.n * b.d <= b.n * a.d
RatLt(a, b) == a.n * b.d < b.n * a.d
RatMin(a, b) == IF RatLe(a, b) THEN a ELSE b

(***************************************************************************)
(* enums.py                                                                *)
(***************************************************************************)
CustomerSegment == {"Small", "Medium", "Large", "Enterprise"}
UrgencyLevel == {"Critical", "High", "Medium", "Low"}

(***************************************************************************)
(* The customers table: one customer of every segment and one whose        *)
(* nullable segment column is NULL.                                        *)
(***************************************************************************)
CustomerIds == 1..5
CustomerSegmentOf ==
    [c \in CustomerIds |->
        CASE c = 1 -> "Small"
          [] c = 2 -> "Medium"
          [] c = 3 -> "Large"
          [] c = 4 -> "Enterprise"
          [] c = 5 -> None]


(***************************************************************************)
(* PriorityScoringService class attributes.                                *)
(***************************************************************************)
CUSTOMER_WEIGHTS ==
    [s \in CustomerSegment |->
        CASE s = "Small" -> Rat(1, 1)
          [] s = "Medium" -> Rat(5, 2)
          [] s = "Large" -> Rat(5, 1)
          [] s = "Enterprise" -> Rat(10, 1)]

URGENCY_MULTIPLIERS ==
    [u \in UrgencyLevel |->
        CASE u = "Critical" -> Rat(2, 1)
          [] u = "High" -> Rat(3, 2)
          [] u = "Medium" -> Rat(1, 1)
          [] u = "Low" -> Rat(1, 2)]

WeightNames == {"customer_impact", "trend_alignment", "business_impact",
                "market_opportunity", "segment_diversity"}

\* variant: segment diversity weighs twice as much
WEIGHTS_Heavier ==
    [w \in WeightNames |->
        CASE w = "customer_impact" -> Rat(30, 100)
          [] w = "trend_alignment" -> Rat(20, 100)
          [] w = "business_impact" -> Rat(25, 100)
          [] w = "market_opportunity" -> Rat(20, 100)
          [] w = "segment_diversity" -> Rat(10, 100)]

WEIGHTS ==
    [w \in WeightNames |->
        CASE w = "customer_impact" -> Rat(30, 100)
          [] w = "trend_alignment" -> Rat(20, 100)
          [] w = "business_impact" -> Rat(25, 100)
          [] w = "market_opportunity" -> Rat(20, 100)
          [] w = "segment_diversity" -> Rat(5, 100)]

\* dict.get(key, default)
DictGet(dict, key, default) == IF key \in DOMAIN dict THEN dict[key] ELSE default

(***************************************************************************)
(* Text.  A Python str is a sequence of one-character strings, so that     *)
(* lower(), strip(), split(), the regular expressions and the substring    *)
(* tests act on characters as they do in the code.                         *)
(***************************************************************************)
UpperCase ==
    <<"A", "B", "C", "D", "E", "F", "G", "H", "I", "J", "K", "L", "M",
      "N", "O", "P", "Q", "R", "S", "T", "U", "V", "W", "X", "Y", "Z">>
LowerCase ==
    <<"a", "b", "c", "d", "e", "f", "g", "h", "i", "j", "k", "l", "m",
      "n", "o", "p", "q", "r", "s", "t", "u", "v", "w", "x", "y", "z">>
Digits == {"0", "1", "2", "3", "4", "5", "6", "7", "8", "9"}
Whitespace == {" ", "\t", "\n"}
\* the characters of the regular expression class \w
WordChars ==
    {UpperCase[i] : i \in 1..26} \cup {LowerCase[i] : i \in 1..26} \cup Digits \cup {"_"}
\* the characters of the regular expression class [?!.]
SentencePunctuation == {"?", "!", "."}

LowerChar(c) ==
    IF \E i \in 1..26 : UpperCase[i] = c
    THEN LowerCase[CHOOSE i \in 1..26 : UpperCase[i] = c]
    ELSE c
UpperChar(c) ==
    IF \E i \in 1..26 : LowerCase[i] = c
    THEN UpperCase[CHOOSE i \in 1..26 : LowerCase[i] = c]
    ELSE c

\* str.lower()
StrLower(s) == [i \in 1..Len(s) |-> LowerChar(s[i])]

SetMin(S) == CHOOSE x \in S : \A y \in S : x <= y
SetMax(S) == CHOOSE x \in S : \A y \in S : y <= x

\* str.strip()
StrStrip(s) ==
    LET kept == {i \in 1..Len(s) : s[i] \notin Whitespace}
    IN  IF kept = {} THEN << >> ELSE SubSeq(s, SetMin(kept), SetMax(kept))

\* the maximal runs of the characters of s that are (inside) or are not
\* (~inside) in class, left to right
RECURSIVE Runs(_, _, _)
Runs(s, class, inside) ==
    LET starts == {i \in 1..Len(s) : (s[i] \in class) = inside}
    IN  IF starts = {} THEN << >>
        ELSE LET b == SetMin(starts)
                 stops == {i \in b..Len(s) : (s[i] \in class) # inside}
                 e == IF stops = {} THEN Len(s) + 1 ELSE SetMin(stops)
             IN  <<SubSeq(s, b, e - 1)>> \o Runs(SubSeq(s, e, Len(s)), class, inside)

\* str.split(): the maximal runs of non-whitespace characters
StrSplit(s) == Runs(s, Whitespace, FALSE)

\* re.findall(r'\b\w+\b', text)
FindAllWords(s) == Runs(s, WordChars, TRUE)

\* sep.join(words)
RECURSIVE StrJoin(_, _)
StrJoin(sep, words) ==
    IF words = << >> THEN << >>
    ELSE IF Len(words) = 1 THEN words[1]
    ELSE words[1] \o sep \o StrJoin(sep, Tail(words))

\* keyword in text
Contains(text, keyword) ==
    \E i \in 1..(Len(text) - Len(keyword) + 1) :
        \A j \in 1..Len(keyword) : text[i + j - 1] = keyword[j]

\* len(re.findall(r'[class]', text))
CountChars(s, class) == Cardinality({i \in 1..Len(s) : s[i] \in class})

tech_keywords ==
    { <<"a", "p", "i">>,  \* api
       <<"i", "n", "t", "e", "g", "r", "a", "t", "i", "o", "n">>,  \* integration
       <<"s", "e", "c", "u", "r", "i", "t", "y">>,  \* security
       <<"p", "e", "r", "f", "o", "r", "m", "a", "n", "c", "e">>,  \* performance
       <<"s", "c", "a", "l", "a", "b", "i", "l", "i", "t", "y">>,  \* scalability
       <<"a", "u", "t", "h", "e", "n", "t", "i", "c", "a", "t", "i", "o", "n">>,  \* authentication
       <<"a", "u", "t", "h", "o", "r", "i", "z", "a", "t", "i", "o", "n">>,  \* authorization
       <<"d", "a", "t", "a", "b", "a", "s", "e">>,  \* database
       <<"a", "n", "a", "l", "y", "t", "i", "c", "s">>,  \* analytics
       <<"r", "e", "p", "o", "r", "t", "i", "n", "g">>,  \* reporting
       <<"d", "a", "s", "h", "b", "o", "a", "r", "d">>,  \* dashboard
       <<"n", "o", "t", "i", "f", "i", "c", "a", "t", "i", "o", "n">>,  \* notification
       <<"e", "m", "a", "i", "l">>,  \* email
       <<"m", "o", "b", "i", "l", "e">>,  \* mobile
       <<"w", "e", "b">>,  \* web
       <<"c", "l", "o", "u", "d">>,  \* cloud
       <<"b", "a", "c", "k", "u", "p">>,  \* backup
       <<"e", "x", "p", "o", "r", "t">>,  \* export
       <<"i", "m", "p", "o", "r", "t">>,  \* import
       <<"s", "y", "n", "c">>,  \* sync
       <<"r", "e", "a", "l", "-", "t", "i", "m", "e">>,  \* real-time
       <<"b", "a", "t", "c", "h">>,  \* batch
       <<"a", "u", "t", "o", "m", "a", "t", "i", "o", "n">>,  \* automation
       <<"w", "o", "r", "k", "f", "l", "o", "w">>,  \* workflow
       <<"a", "p", "p", "r", "o", "v", "a", "l">>,  \* approval
       <<"u", "s", "e", "r">>,  \* user
       <<"a", "d", "m", "i", "n">>,  \* admin
       <<"r", "o", "l", "e">>,  \* role
       <<"p", "e", "r", "m", "i", "s", "s", "i", "o", "n">>,  \* permission
       <<"a", "u", "d", "i", "t">>,  \* audit
       <<"l", "o", "g">> }  \* log

business_keywords ==
    { <<"r", "e", "v", "e", "n", "u", "e">>,  \* revenue
       <<"c", "o", "s", "t">>,  \* cost
       <<"p", "r", "o", "f", "i", "t">>,  \* profit
       <<"c", "u", "s", "t", "o", "m", "e", "r">>,  \* customer
       <<"c", "l", "i", "e", "n", "t">>,  \* client
       <<"s", "a", "l", "e", "s">>,  \* sales
       <<"m", "a", "r", "k", "e", "t", "i", "n", "g">>,  \* marketing
       <<"s", "u", "p", "p", "o", "r", "t">>,  \* support
       <<"s", "e", "r", "v", "i", "c", "e">>,  \* service
       <<"q", "u", "a", "l", "i", "t", "y">>,  \* quality
       <<"c", "o", "m", "p", "l", "i", "a", "n", "c", "e">>,  \* compliance
       <<"r", "e", "g", "u", "l", "a", "t", "i", "o", "n">>,  \* regulation
       <<"p", "r", "o", "c", "e", "s", "s">>,  \* process
       <<"e", "f", "f", "i", "c", "i", "e", "n", "c", "y">>,  \* efficiency
       <<"p", "r", "o", "d", "u", "c", "t", "i", "v", "i", "t", "y">>,  \* productivity
       <<"r", "o", "i">> }  \* roi

question_words ==
    { <<"c", "a", "n">>,  \* can
       <<"c", "o", "u", "l", "d">>,  \* could
       <<"w", "o", "u", "l", "d">>,  \* would
       <<"w", "i", "l", "l">>,  \* will
       <<"d", "o">>,  \* do
       <<"d", "o", "e", "s">>,  \* does
       <<"i", "s">>,  \* is
       <<"a", "r", "e">>,  \* are
       <<"h", "o", "w">>,  \* how
       <<"w", "h", "a", "t">>,  \* what
       <<"w", "h", "e", "n">>,  \* when
       <<"w", "h", "e", "r", "e">>,  \* where
       <<"w", "h", "y">>,  \* why
       <<"w", "h", "i", "c", "h">> }  \* which

(***************************************************************************)
(* Natural numbers beyond the machine width, for the products of the       *)
(* cosine comparison: little-endian sequences of digits in base BigBase,   *)
(* without leading zeros.                                                  *)
(***************************************************************************)
BigBase == 1000

RECURSIVE BigOf(_)
BigOf(n) == IF n = 0 THEN << >> ELSE <<n % BigBase>> \o BigOf(n \div BigBase)

RECURSIVE BigAddCarry(_, _, _)
BigAddCarry(a, b, carry) ==
    IF a = << >> /\ b = << >>
    THEN BigOf(carry)
    ELSE LET x == IF a = << >> THEN 0 ELSE Head(a)
             y == IF b = << >> THEN 0 ELSE Head(b)
             t == x + y + carry
         IN  <<t % BigBase>> \o BigAddCarry(IF a = << >> THEN a ELSE Tail(a),
                                            IF b = << >> THEN b ELSE Tail(b),
                                            t \div BigBase)
BigAdd(a, b) == BigAddCarry(a, b, 0)

\* a times one digit
RECURSIVE BigMulDigit(_, _, _)
BigMulDigit(a, digit, carry) ==
    IF digit = 0 THEN << >>
    ELSE IF a = << >> THEN BigOf(carry)
    ELSE LET t == Head(a) * digit + carry
         IN  <<t % BigBase>> \o BigMulDigit(Tail(a), digit, t \div BigBase)

RECURSIVE BigMul(_, _)
BigMul(a, b) ==
    IF a = << >> \/ b = << >> THEN << >>
    ELSE LET rest == BigMul(a, Tail(b))
         IN  BigAdd(BigMulDigit(a, Head(b), 0), IF rest = << >> THEN rest ELSE <<0>> \o rest)

RECURSIVE BigLess(_, _)
BigLess(a, b) ==
    IF Len(a) # Len(b) THEN Len(a) < Len(b)
    ELSE IF a = << >> THEN FALSE
    ELSE IF a[Len(a)] # b[Len(b)] THEN a[Len(a)] < b[Len(b)]
    ELSE BigLess(SubSeq(a, 1, Len(a) - 1), SubSeq(b, 1, Len(b) - 1))


(***************************************************************************)
(* EmbeddingService                                                        *)
(***************************************************************************)
\* _generate_simple_embedding, in thousandths: the eight lexical features of
\* the lowercased, stripped text.  The padding up to settings.EMBEDDING_DIMENSION
\* (384) is zero and adds nothing to a dot product or a norm.
GenerateSimpleEmbedding(raw) ==
    LET text == StrStrip(StrLower(raw))
        words == FindAllWords(text)
        word_count == Len(words)
        unique_words == Cardinality({words[i] : i \in 1..Len(words)})
        char_count == Len(text)
        digit_count == CountChars(text, Digits)
        tech_score == Cardinality({k \in tech_keywords : Contains(text, k)})
        business_score == Cardinality({k \in business_keywords : Contains(text, k)})
    IN  <<10 * word_count,
          10 * unique_words,
          char_count,
          100 * digit_count,
          100 * tech_score,
          100 * business_score,
          100 * CountChars(text, SentencePunctuation),
          100 * CountChars(text, {UpperCase[i] : i \in 1..26})>>

\* generate_embedding of a single text
GenerateEmbedding(text) == GenerateSimpleEmbedding(text)

RECURSIVE Dot(_, _)
Dot(vec1, vec2) ==
    IF vec1 = << >> THEN 0 ELSE Head(vec1) * Head(vec2) + Dot(Tail(vec1), Tail(vec2))

\* _cosine_similarity: the cosine dot / (norm1 * norm2), kept as the dot
\* product and the two squared norms; 0.0 when a norm is zero.  The
\* components of an embedding are never negative, so neither is the dot.
CosineSimilarity(vec1, vec2) ==
    LET dot_product == Dot(vec1, vec2)
        norm1 == Dot(vec1, vec1)
        norm2 == Dot(vec2, vec2)
    IN  IF norm1 = 0 \/ norm2 = 0
        THEN [dot |-> 0, sq1 |-> 1, sq2 |-> 1]
        ELSE [dot |-> dot_product, sq1 |-> norm1, sq2 |-> norm2]

\* the square of a similarity as a pair of products to compare crosswise
SimSquareNum(x) == BigMul(BigOf(x.dot), BigOf(x.dot))
SimSquareDen(x) == BigMul(BigOf(x.sq1), BigOf(x.sq2))

\* x < y
SimLess(x, y) ==
    BigLess(BigMul(SimSquareNum(x), SimSquareDen(y)),
            BigMul(SimSquareNum(y), SimSquareDen(x)))

\* similarity >= threshold, for a threshold p/q with 0 < p/q
SimAtLeast(x, threshold) ==
    ~BigLess(BigMul(SimSquareNum(x), BigOf(threshold.d * threshold.d)),
             BigMul(SimSquareDen(x), BigOf(threshold.n * threshold.n)))

(***************************************************************************)
(* EmbeddingService.compute_similarity and find_similar_embeddings.  A     *)
(* similarity is nan, or the value (c + 1) / 2 for the cosine              *)
(* c = dot / sqrt(sq1 * sq2) of the two vectors, kept as dot, sq1 and sq2. *)
(***************************************************************************)
NaN == [nan |-> TRUE, dot |-> 0, sq1 |-> 1, sq2 |-> 1]

\* embedding / np.linalg.norm(embedding) is 0 / 0.0 = nan in every component of
\* a zero vector (numpy warns and does not raise), and so are the dot product
\* and (similarity + 1) / 2
compute_similarity(embedding1, embedding2) ==
    IF Dot(embedding1, embedding1) = 0 \/ Dot(embedding2, embedding2) = 0
    THEN NaN
    ELSE [nan |-> FALSE,
          dot |-> Dot(embedding1, embedding2),
          sq1 |-> Dot(embedding1, embedding1),
          sq2 |-> Dot(embedding2, embedding2)]

\* x < y for two similarities that are not nan: (c + 1) / 2 grows with c
ScoreLess(x, y) ==
    IF x.dot < 0 /\ y.dot >= 0 THEN TRUE
    ELSE IF x.dot >= 0 /\ y.dot < 0 THEN FALSE
    ELSE IF x.dot >= 0
    THEN x.dot * x.dot * y.sq1 * y.sq2 < y.dot * y.dot * x.sq1 * x.sq2
    ELSE x.dot * x.dot * y.sq1 * y.sq2 > y.dot * y.dot * x.sq1 * x.sq2

\* variant: similarity <= threshold
ScoreAtLeast_AtMost(x, threshold) ==
    /\ ~x.nan
    /\ LET c == 2 * threshold.n - threshold.d
       IN  IF x.dot >= 0
           THEN c >= 0 /\ x.dot * x.dot * threshold.d * threshold.d <= c * c * x.sq1 * x.sq2
           ELSE c >= 0 \/ x.dot * x.dot * threshold.d * threshold.d >= c * c * x.sq1 * x.sq2

\* similarity >= threshold, which is False for nan: (c + 1) / 2 >= n / d if and
\* only if c >= (2n - d) / d
ScoreAtLeast(x, threshold) ==
    /\ ~x.nan
    /\ LET c == 2 * threshold.n - threshold.d
       IN  IF x.dot >= 0
           THEN c <= 0 \/ x.dot * x.dot * threshold.d * threshold.d >= c * c * x.sq1 * x.sq2
           ELSE c < 0 /\ x.dot * x.dot * threshold.d * threshold.d <= c * c * x.sq1 * x.sq2

\* similarities.sort(key=lambda x: x[1], reverse=True): descending and stable
RECURSIVE SortedByScore(_)
SortedByScore(similarities) ==
    IF similarities = << >> THEN << >>
    ELSE LET n == Len(similarities)
             sorted == SortedByScore(SubSeq(similarities, 1, n - 1))
             last == similarities[n]
             lower == {i \in 1..Len(sorted) :
                          ScoreLess(sorted[i].similarity, last.similarity)}
             at == IF lower = {} THEN Len(sorted) + 1 ELSE SetMin(lower)
         IN  SubSeq(sorted, 1, at - 1) \o <<last>> \o SubSeq(sorted, at, Len(sorted))

\* similarities[:top_k]
Truncated(similarities, top_k) ==
    IF top_k >= 0
    THEN SubSeq(similarities, 1, IF top_k < Len(similarities) THEN top_k
                                 ELSE Len(similarities))
    ELSE SubSeq(similarities, 1, IF Len(similarities) + top_k > 0
                                 THEN Len(similarities) + top_k ELSE 0)

\* the (idx, similarity) of every embedding of the list, idx counted from 0
Similarities(query_embedding, embeddings) ==
    [i \in 1..Len(embeddings) |->
        [idx |-> i - 1, similarity |-> compute_similarity(query_embedding, embeddings[i])]]

\* variant: the sorted list is returned whole
find_similar_embeddings_Whole(query_embedding, embeddings, threshold, top_k) ==
    SortedByScore(SelectSeq(Similarities(query_embedding, embeddings),
                            LAMBDA c : ScoreAtLeast(c.similarity, threshold)))

find_similar_embeddings(query_embedding, embeddings, threshold, top_k) ==
    Truncated(SortedByScore(SelectSeq(Similarities(query_embedding, embeddings),
                                      LAMBDA c : ScoreAtLeast(c.similarity, threshold))),
              top_k)

(***************************************************************************)
(* RFPProcessor._extract_feature_title                                     *)
(***************************************************************************)
\* len(title) > 100 and title[:97]
TitleMaxLength == 100
TitleKeptLength == 97
\* ...
Ellipsis ==
    <<".", ".", ".">>
\* Feature Request
DefaultTitle ==
    <<"F", "e", "a", "t", "u", "r", "e", " ", "R", "e", "q", "u", "e", "s",
      "t">>

\* while words and words[0].lower() in question_words: words.pop(0)
RECURSIVE DropQuestionWords(_)
DropQuestionWords(words) ==
    IF words = << >> THEN words
    ELSE IF StrLower(Head(words)) \in question_words THEN DropQuestionWords(Tail(words))
    ELSE words

\* re.sub(r'[?!.]+$', '', word)
StripTrailingPunctuation(word) ==
    LET kept == {i \in 1..Len(word) : word[i] \notin SentencePunctuation}
    IN  IF kept = {} THEN << >> ELSE SubSeq(word, 1, SetMax(kept))

\* title[0].upper() + title[1:]
Capitalize(title) ==
    IF title = << >> THEN title ELSE <<UpperChar(Head(title))>> \o Tail(title)

ExtractFeatureTitle_NoCapital(question) ==
    LET words == DropQuestionWords(StrSplit(StrStrip(question)))
        cleaned == IF words = << >> THEN words
                   ELSE [words EXCEPT ![Len(words)] = StripTrailingPunctuation(@)]
        title == StrJoin(<<" ">>, cleaned)
        truncated == IF Len(title) > TitleMaxLength
                     THEN SubSeq(title, 1, TitleKeptLength) \o Ellipsis
                     ELSE title
    IN  IF truncated = << >> THEN DefaultTitle ELSE truncated

ExtractFeatureTitle(question) ==
    LET words == DropQuestionWords(StrSplit(StrStrip(question)))
        cleaned == IF words = << >> THEN words
                   ELSE [words EXCEPT ![Len(words)] = StripTrailingPunctuation(@)]
        title == Capitalize(StrJoin(<<" ">>, cleaned))
        truncated == IF Len(title) > TitleMaxLength
                     THEN SubSeq(title, 1, TitleKeptLength) \o Ellipsis
                     ELSE title
    IN  IF truncated = << >> THEN DefaultTitle ELSE truncated

(***************************************************************************)
(* The texts of the model: the corpus the features start from and the      *)
(* question/answer pairs of the uploaded files.                            *)
(***************************************************************************)
\* PDF export
PdfExportTitle ==
    <<"P", "D", "F", " ", "e", "x", "p", "o", "r", "t">>

\* Export reports
PdfExportDescription ==
    <<"E", "x", "p", "o", "r", "t", " ", "r", "e", "p", "o", "r", "t", "s">>

\* Audit log
AuditLogTitle ==
    <<"A", "u", "d", "i", "t", " ", "l", "o", "g">>

\* User audit
AuditLogDescription ==
    <<"U", "s", "e", "r", " ", "a", "u", "d", "i", "t">>

\* Can we export reports to PDF?
ExportQuestion ==
    <<"C", "a", "n", " ", "w", "e", " ", "e", "x", "p", "o", "r", "t", " ",
      "r", "e", "p", "o", "r", "t", "s", " ", "t", "o", " ", "P", "D", "F",
      "?">>

\* Yes
YesAnswer ==
    <<"Y", "e", "s">>

\* Audit log export
AuditQuestion ==
    <<"A", "u", "d", "i", "t", " ", "l", "o", "g", " ", "e", "x", "p", "o",
      "r", "t">>

\* User
UserAnswer ==
    <<"U", "s", "e", "r">>

\* Is it 24 7?
HoursQuestion ==
    <<"I", "s", " ", "i", "t", " ", "2", "4", " ", "7", "?">>

\* No
NoAnswer ==
    <<"N", "o">>

(***************************************************************************)
(* State.                                                                  *)
(*   features   features rows by id: epic, title, description,             *)
(*              normalized_text, customer_request_count                    *)
(*   epics      epics rows by id: the title                                *)
(*   requests   feature_requests rows, in insertion order                  *)
(*   trends, impacts, markets   analysis rows, in created_at order         *)
(*   snapshots  priority_scores rows, in insertion order                   *)
(*   scoring    outcome and locals of the calculate_priority_score call    *)
(*              that has just returned, "none" after any other operation   *)
(*   documents  rfp_documents rows by id                                   *)
(*   qa_pairs   rfp_qa_pairs rows, in insertion order                      *)
(*   session    the background task of the RFP endpoints that is scheduled *)
(*              or running, its locals and what it has committed           *)
(*   call       the arguments and the result of the call of a routine of   *)
(*              the matcher, or of an endpoint, that has just returned     *)
(*   handlers   the request handlers in flight, each with the rows its     *)
(*              session has loaded                                         *)
(*   analysis_cache   the module-level cache of the agent endpoint         *)
(*   now        the clock, in hours                                        *)
(*   epic_status   the status column of the epics rows                     *)
(*   reports    feature_analysis_reports rows, in insertion order          *)
(***************************************************************************)
VARIABLES features, epics, requests, trends, impacts, markets, snapshots, scoring,
          documents, qa_pairs, session, call, handlers, analysis_cache, now,
          epic_status, reports

vars == <<features, epics, requests, trends, impacts, markets, snapshots, scoring,
          documents, qa_pairs, session, call, handlers, analysis_cache, now,
          epic_status, reports>>

\* the state of the API layer, which neither the scoring service nor the RFP
\* endpoints touch: the call that has just returned, the request handlers in
\* flight, the cache of the agent endpoint and its clock, the status of the
\* epics, the stored analysis reports
apiVars == <<call, handlers, analysis_cache, now, epic_status, reports>>

\* what the scoring service reads and writes besides features and requests; no
\* operation on the tables touches the record of a matcher call
scoreVars == <<trends, impacts, markets, snapshots, scoring, apiVars>>
\* what only the RFP endpoints read and write
rfpVars == <<epics, documents, qa_pairs, session, apiVars>>

ExistingFeatures == 1..Len(features)
\* the ids a caller may pass: every existing feature and one that does not exist
FeatureIds == 1..(Len(features) + 1)

\* rows of a table that belong to one feature, oldest first
RowsOf(table, feature_id) == SelectSeq(table, LAMBDA r : r.feature_id = feature_id)

\* variant: the oldest row of the feature
Latest_Oldest(table, feature_id) ==
    LET rows == RowsOf(table, feature_id)
    IN  IF rows = << >> THEN Null ELSE Some(rows[1])

\* .order_by(created_at.desc()).limit(1) / scalar_one_or_none()
Latest(table, feature_id) ==
    LET rows == RowsOf(table, feature_id)
    IN  IF rows = << >> THEN Null ELSE Some(rows[Len(rows)])

(***************************************************************************)
(* The five component scores.                                              *)
(***************************************************************************)
RECURSIVE TotalWeight(_)
TotalWeight(rows) ==
    IF rows = << >> THEN RatInt(0)
    ELSE LET request == Head(rows)
             segment_weight ==
                 DictGet(CUSTOMER_WEIGHTS, CustomerSegmentOf[request.customer_id], RatInt(1))
             urgency_multiplier ==
                 DictGet(URGENCY_MULTIPLIERS, request.urgency, RatInt(1))
         IN  RatAdd(RatMul(segment_weight, urgency_multiplier), TotalWeight(Tail(rows)))

\* variant: the scaled sum is not capped
CalculateCustomerImpactScore_Uncapped(feature_id) ==
    LET requests_with_customers == RowsOf(requests, feature_id)
    IN  IF requests_with_customers = << >> THEN RatInt(0)
        ELSE RatMul(TotalWeight(requests_with_customers), RatInt(5))

CalculateCustomerImpactScore(feature_id) ==
    LET requests_with_customers == RowsOf(requests, feature_id)
    IN  IF requests_with_customers = << >> THEN RatInt(0)
        ELSE RatNorm(RatMin(RatMul(TotalWeight(requests_with_customers), RatInt(5)),
                            RatInt(100)))

\* Decimal('0.0') and None are both falsy
CalculateTrendAlignmentScore(feature_id) ==
    LET trend_analysis == Latest(trends, feature_id)
    IN  IF IsNull(trend_analysis) THEN RatInt(50)
        ELSE LET trend_score == Val(trend_analysis).trend_score
             IN  IF IsNull(trend_score) \/ Val(trend_score) = 0 THEN RatInt(50)
                 ELSE RatNorm(RatMul(Rat(Val(trend_score), 10), RatInt(10)))

\* variant: a missing analysis scores 0 instead of the neutral 50
CalculateBusinessImpactScore_ZeroDefault(feature_id) ==
    LET business_analysis == Latest(impacts, feature_id)
    IN  IF IsNull(business_analysis) THEN RatInt(0)
        ELSE LET impact_score == Val(business_analysis).impact_score
             IN  IF IsNull(impact_score) \/ Val(impact_score) = 0 THEN RatInt(50)
                 ELSE RatInt(Val(impact_score))

CalculateBusinessImpactScore(feature_id) ==
    LET business_analysis == Latest(impacts, feature_id)
    IN  IF IsNull(business_analysis) THEN RatInt(50)
        ELSE LET impact_score == Val(business_analysis).impact_score
             IN  IF IsNull(impact_score) \/ Val(impact_score) = 0 THEN RatInt(50)
                 ELSE RatInt(Val(impact_score))

\* the division raises TypeError when competitors_not_providing is None
MarketOpportunityRaises(feature_id) ==
    LET market_analysis == Latest(markets, feature_id)
    IN  /\ ~IsNull(market_analysis)
        /\ ~IsNull(Val(market_analysis).total_competitors_analyzed)
        /\ Val(Val(market_analysis).total_competitors_analyzed) # 0
        /\ IsNull(Val(market_analysis).competitors_not_providing)

\* variant: the ratio of competitors that do provide the feature
CalculateMarketOpportunityScore_Providing(feature_id) ==
    LET market_analysis == Latest(markets, feature_id)
    IN  IF \/ IsNull(market_analysis)
           \/ IsNull(Val(market_analysis).total_competitors_analyzed)
           \/ Val(Val(market_analysis).total_competitors_analyzed) = 0
        THEN RatInt(50)
        ELSE LET total == Val(Val(market_analysis).total_competitors_analyzed)
                 gap_ratio == Rat(total - Val(Val(market_analysis).competitors_not_providing),
                                  total)
             IN  RatMul(gap_ratio, RatInt(100))

CalculateMarketOpportunityScore(feature_id) ==
    LET market_analysis == Latest(markets, feature_id)
    IN  IF \/ IsNull(market_analysis)
           \/ IsNull(Val(market_analysis).total_competitors_analyzed)
           \/ Val(Val(market_analysis).total_competitors_analyzed) = 0
        THEN RatInt(50)
        ELSE LET gap_ratio == Rat(Val(Val(market_analysis).competitors_not_providing),
                                  Val(Val(market_analysis).total_competitors_analyzed))
             IN  RatNorm(RatMul(gap_ratio, RatInt(100)))

\* variant: count(Customer.segment) without distinct
UniqueSegments_NotDistinct(feature_id) ==
    LET rows == RowsOf(requests, feature_id)
    IN  Cardinality({i \in 1..Len(rows) : CustomerSegmentOf[rows[i].customer_id] # None})

\* count(distinct Customer.segment): SQL does not count NULL
UniqueSegments(feature_id) ==
    LET rows == RowsOf(requests, feature_id)
    IN  Cardinality({CustomerSegmentOf[rows[i].customer_id] : i \in 1..Len(rows)} \ {None})

CalculateSegmentDiversityScore(feature_id) ==
    LET unique_segments == UniqueSegments(feature_id)
    IN  IF unique_segments = 0 THEN RatInt(0)
        ELSE RatMin(RatInt(unique_segments * 25), RatInt(100))

WeightedSum(customer_score, trend_score, business_score, market_score, diversity_score) ==
    RatNorm(
      RatAdd(RatMul(customer_score, WEIGHTS["customer_impact"]),
      RatAdd(RatMul(trend_score, WEIGHTS["trend_alignment"]),
      RatAdd(RatMul(business_score, WEIGHTS["business_impact"]),
      RatAdd(RatMul(market_score, WEIGHTS["market_opportunity"]),
             RatMul(diversity_score, WEIGHTS["segment_diversity"]))))))

(***************************************************************************)
(* A value stored in a DECIMAL(4,1) column, in tenths.                     *)
(***************************************************************************)
ToDecimal1(r) ==
    LET t == (20 * Abs(r.n) + r.d) \div (2 * r.d)
    IN  IF r.n < 0 THEN -t ELSE t

\* numeric field overflow: DECIMAL(4,1) holds |x| < 1000
DecimalOverflow(r) == Abs(ToDecimal1(r)) > 9999


(***************************************************************************)
(* Inputs of the analysis tables, as the Create schemas admit them.        *)
(* trend_score is a DECIMAL(3,1) in tenths.                                *)
(***************************************************************************)
TrendScores == {Null, Some(0), Some(90)}
ImpactScores == {Null, Some(0), Some(37)}
TotalCompetitors == {Some(0), Some(1), Some(3)}
CompetitorCounts == {Null, Some(1), Some(3)}
\* the customers and urgencies the scoring runs are explored with
ScoredCustomers == {1, 4}
ScoredUrgencies == {"Low", "Critical"}

\* rows inserted so far, over all tables
TotalRows == Len(requests) + Len(trends) + Len(impacts) + Len(markets) + Len(snapshots)

NoScoring == [status |-> "none"]

Idle == [state |-> "idle"]

NoCall == [routine |-> "none"]

\* POST /features: the row of a new feature
NewFeature(epic_id, title, description) ==
    [epic_id |-> epic_id,
     title |-> title,
     description |-> description,
     normalized_text |-> StrLower(title \o <<" ">> \o description),
     customer_request_count |-> 0]

\* the features every behaviour starts from, in one epic
Corpus ==
    <<NewFeature(1, PdfExportTitle, PdfExportDescription),
      NewFeature(1, AuditLogTitle, AuditLogDescription)>>

\* two features without requests, no analysis, no RFP document
Init ==
    /\ features = Corpus
    /\ epics = <<"Reporting">>
    /\ requests = << >>
    /\ trends = << >>
    /\ impacts = << >>
    /\ markets = << >>
    /\ snapshots = << >>
    /\ scoring = NoScoring
    /\ documents = << >>
    /\ qa_pairs = << >>
    /\ session = Idle
    /\ call = NoCall
    /\ handlers = << >>
    /\ analysis_cache = {}
    /\ now = 0
    /\ epic_status = <<"Draft">>
    /\ reports = << >>

\* POST /features/{feature_id}/requests
CreateFeatureRequest(feature_id, customer_id, urgency) ==
    /\ feature_id \in ExistingFeatures
    /\ TotalRows < MaxRows
    /\ requests' = Append(requests, [feature_id |-> feature_id,
                                      customer_id |-> customer_id,
                                      urgency |-> urgency,
                                      source |-> None])
    /\ features' = [features EXCEPT ![feature_id].customer_request_count = @ + 1]
    /\ UNCHANGED <<trends, impacts, markets, snapshots>>
    /\ UNCHANGED rfpVars
    /\ scoring' = NoScoring

\* Field(None, ge=0, le=10) and validate_trend_score
ValidTrendScore(trend_score) ==
    IF IsNull(trend_score) THEN TRUE
    ELSE Val(trend_score) >= 0 /\ Val(trend_score) <= 100

InsertTrendAnalysis(feature_id, trend_score) ==
    /\ feature_id \in ExistingFeatures
    /\ TotalRows < MaxRows
    /\ ValidTrendScore(trend_score)
    /\ trends' = Append(trends, [feature_id |-> feature_id, trend_score |-> trend_score])
    /\ UNCHANGED <<features, requests, impacts, markets, snapshots>>
    /\ UNCHANGED rfpVars
    /\ scoring' = NoScoring

\* Field(None, ge=0, le=100) and validate_impact_score
ValidImpactScore(impact_score) ==
    IF IsNull(impact_score) THEN TRUE
    ELSE Val(impact_score) >= 0 /\ Val(impact_score) <= 100

InsertBusinessImpactAnalysis(feature_id, impact_score) ==
    /\ feature_id \in ExistingFeatures
    /\ TotalRows < MaxRows
    /\ ValidImpactScore(impact_score)
    /\ impacts' = Append(impacts, [feature_id |-> feature_id, impact_score |-> impact_score])
    /\ UNCHANGED <<features, requests, trends, markets, snapshots>>
    /\ UNCHANGED rfpVars
    /\ scoring' = NoScoring

\* validate_competitor_counts: the counts must add up only when all three are given
ValidCompetitorCounts(total, providing, not_providing) ==
    IF ~IsNull(total) /\ ~IsNull(providing) /\ ~IsNull(not_providing)
    THEN Val(providing) + Val(not_providing) = Val(total)
    ELSE TRUE

InsertMarketOpportunityAnalysis(feature_id, total, not_providing) ==
    /\ feature_id \in ExistingFeatures
    /\ TotalRows < MaxRows
    /\ \E providing \in CompetitorCounts :
          ValidCompetitorCounts(total, providing, not_providing)
    /\ markets' = Append(markets, [feature_id |-> feature_id,
                                    total_competitors_analyzed |-> total,
                                    competitors_not_providing |-> not_providing])
    /\ UNCHANGED <<features, requests, trends, impacts, snapshots>>
    /\ UNCHANGED rfpVars
    /\ scoring' = NoScoring

Raised(feature_id, error) ==
    [status |-> "raised", feature_id |-> feature_id, error |-> error]

\* variant: the row does not record the weights
PriorityScoreRow_NoWeights(feature_id, final_score, customer_score, trend_score, business_score, market_score, diversity_score) ==
    [feature_id |-> feature_id,
     final_score |-> ToDecimal1(RatMin(final_score, RatInt(100))),
     customer_impact_score |-> ToDecimal1(customer_score),
     trend_alignment_score |-> ToDecimal1(trend_score),
     business_impact_score |-> ToDecimal1(business_score),
     market_opportunity_score |-> ToDecimal1(market_score),
     segment_diversity_score |-> ToDecimal1(diversity_score),
     calculation_metadata |-> [algorithm_version |-> "1.0"],
     algorithm_version |-> "1.0"]

\* the PriorityScore row as the database holds it after commit and refresh
PriorityScoreRow(feature_id, final_score, customer_score, trend_score, business_score, market_score, diversity_score) ==
    [feature_id |-> feature_id,
     final_score |-> ToDecimal1(RatMin(final_score, RatInt(100))),
     customer_impact_score |-> ToDecimal1(customer_score),
     trend_alignment_score |-> ToDecimal1(trend_score),
     business_impact_score |-> ToDecimal1(business_score),
     market_opportunity_score |-> ToDecimal1(market_score),
     segment_diversity_score |-> ToDecimal1(diversity_score),
     calculation_metadata |-> [weights |-> WEIGHTS, algorithm_version |-> "1.0"],
     algorithm_version |-> "1.0"]

calculate_priority_score(feature_id) ==
    /\ UNCHANGED <<features, requests, trends, impacts, markets>>
    /\ UNCHANGED rfpVars
    /\ IF feature_id \notin ExistingFeatures
       THEN /\ scoring' = Raised(feature_id, "ValueError")
            /\ UNCHANGED snapshots
       ELSE IF MarketOpportunityRaises(feature_id)
       THEN /\ scoring' = Raised(feature_id, "TypeError")
            /\ UNCHANGED snapshots
       ELSE LET customer_score == CalculateCustomerImpactScore(feature_id)
                trend_score == CalculateTrendAlignmentScore(feature_id)
                business_score == CalculateBusinessImpactScore(feature_id)
                market_score == CalculateMarketOpportunityScore(feature_id)
                diversity_score == CalculateSegmentDiversityScore(feature_id)
                final_score == WeightedSum(customer_score, trend_score, business_score,
                                           market_score, diversity_score)
            IN  IF \E r \in {customer_score, trend_score, business_score,
                              market_score, diversity_score} : DecimalOverflow(r)
                THEN /\ scoring' = Raised(feature_id, "DataError")
                     /\ UNCHANGED snapshots
                ELSE /\ snapshots' = Append(snapshots,
                            PriorityScoreRow(feature_id, final_score, customer_score,
                                trend_score, business_score, market_score, diversity_score))
                     /\ scoring' = [status |-> "ok",
                                    feature_id |-> feature_id,
                                    customer_score |-> customer_score,
                                    trend_score |-> trend_score,
                                    business_score |-> business_score,
                                    market_score |-> market_score,
                                    diversity_score |-> diversity_score,
                                    final_score |-> final_score]

CalculatePriorityScore(feature_id) ==
    /\ TotalRows < MaxRows
    /\ calculate_priority_score(feature_id)

NextScore ==
    \/ \E f \in FeatureIds, c \in ScoredCustomers, u \in ScoredUrgencies :
           CreateFeatureRequest(f, c, u)
    \/ \E f \in FeatureIds, t \in TrendScores : InsertTrendAnalysis(f, t)
    \/ \E f \in FeatureIds, i \in ImpactScores : InsertBusinessImpactAnalysis(f, i)
    \/ \E f \in FeatureIds, t \in TotalCompetitors, n \in CompetitorCounts :
           InsertMarketOpportunityAnalysis(f, t, n)
    \/ \E f \in FeatureIds : CalculatePriorityScore(f)

SpecScore == Init /\ [][NextScore]_vars


(***************************************************************************)
(* Scoring from a drawn request table: every mix of up to MaxRequests      *)
(* requests on feature 1 (rows in a canonical order), next to one request  *)
(* on feature 2.                                                           *)
(***************************************************************************)
\* the kinds of request drawn: <<customer, urgency>>, every segment (and the unset
\* one) and every urgency (and NULL, which the column admits) among them
KindSeq ==
    <<  <<4, "Critical">>, <<1, "Low">>, <<2, "High">>, <<3, "Medium">>,
        <<5, "Critical">>, <<4, None>>, <<2, "Low">>, <<3, "Critical">>,
        <<1, "High">>, <<5, None>>, <<1, "Medium">>, <<4, "High">>,
        <<2, "Critical">>, <<3, "Low">>  >>

KindIndex == 1..Len(KindSeq)

KindAt(k) ==
    [feature_id |-> 1, customer_id |-> KindSeq[k][1], urgency |-> KindSeq[k][2],
     source |-> None]

RECURSIVE DrawnRequests(_, _)
DrawnRequests(n, from) ==
    IF n = 0 THEN {<< >>}
    ELSE UNION {{<<KindAt(j)>> \o rest : rest \in DrawnRequests(n - 1, j)} :
                  j \in {k \in KindIndex : k >= from}}

OtherFeatureRequest ==
    [feature_id |-> 2, customer_id |-> 4, urgency |-> "Critical", source |-> None]

InitCustomer ==
    /\ \E n \in 0..MaxRequests :
          requests \in {<<OtherFeatureRequest>> \o drawn : drawn \in DrawnRequests(n, 1)}
    /\ features = [f \in 1..2 |->
                      [Corpus[f] EXCEPT !.customer_request_count = Len(RowsOf(requests, f))]]
    /\ epics = <<"Reporting">>
    /\ trends = << >>
    /\ impacts = << >>
    /\ markets = << >>
    /\ snapshots = << >>
    /\ scoring = NoScoring
    /\ documents = << >>
    /\ qa_pairs = << >>
    /\ session = Idle
    /\ call = NoCall
    /\ handlers = << >>
    /\ analysis_cache = {}
    /\ now = 0
    /\ epic_status = <<"Draft">>
    /\ reports = << >>

ScoreDrawnRequests(feature_id) ==
    /\ snapshots = << >>
    /\ calculate_priority_score(feature_id)

NextCustomer == \E f \in FeatureIds : ScoreDrawnRequests(f)

SpecCustomer == InitCustomer /\ [][NextCustomer]_vars

(***************************************************************************)
(* RFP processing.  The tables hold what the session of the running        *)
(* handler sees; session.committed is what the database holds, and a       *)
(* failed flush or commit rolls the tables back to it.                     *)
(***************************************************************************)
RequestSource == {"Sales Call", "Support Ticket", "User Interview", "RFP"}
ProcessedStatus == {"Pending", "Processing", "Complete", "Failed"}
Purposes == {"analyze", "respond"}

\* RFPProcessor.similarity_threshold, and the threshold process_rfp_file passes
similarity_threshold == Rat(17, 20)
file_threshold == Rat(7, 10)
\* results["qa_pairs_processed"] % 10 == 0, (idx + 1) % 10 == 0
CommitEvery == 10

RfpEpicTitle == "RFP Generated Features"

Tables ==
    [features |-> features, requests |-> requests, epics |-> epics,
     documents |-> documents, qa_pairs |-> qa_pairs]

Install(t) ==
    /\ features' = t.features
    /\ requests' = t.requests
    /\ epics' = t.epics
    /\ documents' = t.documents
    /\ qa_pairs' = t.qa_pairs

\* Column(Enum(RequestSource)): the database takes a member of the enum or NULL
\* and rejects the INSERT of anything else, which fails the flush
CanFlush(rows, flushed) ==
    \A i \in (flushed + 1)..Len(rows) : rows[i].source \in RequestSource \cup {None}

\* select(Feature) has no ORDER BY: the rows come in an order the database chooses
SelectOrders(table) == Permutations(1..Len(table))

FeatureText(feature) == feature.title \o <<" ">> \o feature.description

\* list.sort(key=similarity, reverse=True): descending and stable
RECURSIVE SortedBySimilarity(_)
SortedBySimilarity(candidates) ==
    IF candidates = << >> THEN << >>
    ELSE LET n == Len(candidates)
             sorted == SortedBySimilarity(SubSeq(candidates, 1, n - 1))
             last == candidates[n]
             lower == {i \in 1..Len(sorted) :
                          SimLess(sorted[i].similarity, last.similarity)}
             at == IF lower = {} THEN Len(sorted) + 1 ELSE SetMin(lower)
         IN  SubSeq(sorted, 1, at - 1) \o <<last>> \o SubSeq(sorted, at, Len(sorted))

find_similar_features(embedding, threshold, rows, table) ==
    LET scored == [i \in 1..Len(rows) |->
                      [feature_id |-> rows[i],
                       similarity |-> IF table[rows[i]].description = << >>
                                      THEN CosineSimilarity(<<0>>, <<0>>)
                                      ELSE CosineSimilarity(embedding,
                                               GenerateEmbedding(FeatureText(table[rows[i]])))]]
        similar_features ==
            SelectSeq(scored, LAMBDA c : /\ table[c.feature_id].description # << >>
                                         /\ SimAtLeast(c.similarity, threshold))
    IN  SortedBySimilarity(similar_features)

\* _get_or_create_rfp_epic
get_or_create_rfp_epic(table) ==
    IF \E e \in 1..Len(table) : table[e] = RfpEpicTitle THEN table
    ELSE Append(table, RfpEpicTitle)

\* _create_feature_from_qa, after its flush has gone through
create_feature_from_qa(t, question, answer, customer_id) ==
    LET title == ExtractFeatureTitle(question)
        description == StrStrip(answer)
        all_epics == get_or_create_rfp_epic(t.epics)
        feature == [epic_id |-> CHOOSE e \in 1..Len(all_epics) : all_epics[e] = RfpEpicTitle,
                    title |-> title,
                    description |-> description,
                    normalized_text |-> StrLower(title \o <<" ">> \o description),
                    customer_request_count |-> IF customer_id # Null THEN 1 ELSE 0]
        all_features == Append(t.features, feature)
    IN  [t EXCEPT !.epics = all_epics,
                  !.features = all_features,
                  !.requests = IF customer_id # Null
                               THEN Append(@, [feature_id |-> Len(all_features),
                                               customer_id |-> Val(customer_id),
                                               urgency |-> None,
                                               source |-> "rfp_analysis"])
                               ELSE @]

\* _increment_customer_request
increment_customer_request(t, feature_id, customer_id) ==
    [t EXCEPT !.requests = Append(@, [feature_id |-> feature_id,
                                      customer_id |-> customer_id,
                                      urgency |-> None,
                                      source |-> "rfp_analysis"])]

\* "Link to most similar feature": the count of the feature goes up by one and
\* process_document records a request of the customer of the document
LinkPair(t, flushed, best_feature, request_on_link) ==
    [outcome |-> "linked", feature_id |-> Some(best_feature), flushed |-> flushed,
     tables |-> IF request_on_link # Null
                THEN increment_customer_request(
                         [t EXCEPT !.features[best_feature].customer_request_count = @ + 1],
                         best_feature, Val(request_on_link))
                ELSE [t EXCEPT !.features[best_feature].customer_request_count = @ + 1]]

\* the branch on similar_features of the two loops
ResolveWith(t, flushed, similar_features, question, answer, create, customer_id, request_on_link) ==
    IF similar_features # << >>
    THEN LinkPair(t, flushed, similar_features[1].feature_id, request_on_link)
    ELSE IF ~create
    THEN [outcome |-> "skipped", feature_id |-> Null, flushed |-> flushed, tables |-> t]
    ELSE IF ~CanFlush(t.requests, flushed)
    THEN [outcome |-> "failed", feature_id |-> Null, flushed |-> flushed, tables |-> t]
    ELSE [outcome |-> "created", feature_id |-> Some(Len(t.features) + 1),
          flushed |-> Len(t.requests),
          tables |-> create_feature_from_qa(t, question, answer, customer_id)]

\* The resolution of one question/answer pair against the features, shared by
\* the loop bodies of process_rfp_file and process_document: link the pair to
\* the most similar feature, or create a feature from it.
\*   link, create      whether the caller links and creates at all
\*   customer_id       document.customer_id, NULL or a customer
\*   request_on_link   the customer process_document records a request for, or NULL
ResolvePair(t, flushed, question, answer, threshold, rows, link, create, customer_id, request_on_link) ==
    ResolveWith(t, flushed,
                IF link
                THEN find_similar_features(GenerateEmbedding(question \o <<" ">> \o answer),
                                           threshold, rows, t.features)
                ELSE << >>,
                question, answer, link /\ create, customer_id, request_on_link)

\* the sum of customer_request_count over a features table
RECURSIVE TotalRequestCount(_)
TotalRequestCount(table) ==
    IF table = << >> THEN 0
    ELSE Head(table).customer_request_count + TotalRequestCount(Tail(table))

\* features and counted requests, the measure the exploration is capped by
CorpusSize == Len(features) + TotalRequestCount(features)

\* a background task that has been scheduled or is running; linked and created
\* are the pairs resolved since the last commit
Task(state, handler, document_id, file, link, create, pairs, committed) ==
    [state |-> state, handler |-> handler, document_id |-> document_id,
     file |-> file, link |-> link, create |-> create, pairs |-> pairs,
     idx |-> 0, flushed |-> Len(committed.requests), committed |-> committed,
     linked |-> << >>, created |-> 0]

\* len(text) > 10
MinQuestionLength == 10

\* extract_qa_with_llm returns the stripped cells of the question and answer
\* columns of the file, extract_questions_only the questions of more than
\* MinQuestionLength characters with an empty answer
ExtractedPairs(file, purpose) ==
    IF purpose = "respond"
    THEN SelectSeq([i \in 1..Len(file) |->
                       [question |-> StrStrip(file[i].question), answer |-> << >>]],
                   LAMBDA qa : Len(qa.question) > MinQuestionLength)
    ELSE [i \in 1..Len(file) |-> [question |-> StrStrip(file[i].question),
                                   answer |-> StrStrip(file[i].answer)]]

\* POST /rfp/upload: the document row is committed and process_rfp_file is
\* scheduled as a background task
upload_rfp_document(customer_id, purpose, file) ==
    /\ session = Idle
    /\ purpose \in Purposes
    /\ Len(documents) < MaxDocuments
    /\ documents' = Append(documents, [customer_id |-> customer_id,
                                        processed_status |-> "Pending",
                                        purpose |-> purpose,
                                        total_questions |-> Null,
                                        processed_questions |-> Null,
                                        error |-> FALSE])
    /\ session' = Task("scheduled", "process_rfp_file", Len(documents) + 1,
                       ExtractedPairs(file, purpose), purpose = "analyze",
                       purpose = "analyze", << >>, Tables)
    /\ UNCHANGED <<features, requests, epics, qa_pairs>>
    /\ UNCHANGED scoreVars

\* process_rfp_file up to its loop: status and question counts, committed
process_rfp_file_start ==
    /\ session.state = "scheduled"
    /\ session.handler = "process_rfp_file"
    /\ LET d == session.document_id
           t == [Tables EXCEPT !.documents[d].processed_status = "Processing",
                               !.documents[d].total_questions = Some(Len(session.file)),
                               !.documents[d].processed_questions = Some(0)]
       IN  /\ Install(t)
           /\ session' = Task("running", session.handler, d, session.file,
                              session.link, session.create, << >>, t)
    /\ UNCHANGED scoreVars

\* the database state after the except block of process_rfp_file: a failed
\* commit has rolled the transaction back and closed it, the block reads the
\* document again and commits Failed; a failed flush leaves the session in need
\* of a rollback, the block's own query raises and nothing more is committed
RfpFileFailure(committed, d, at_commit) ==
    IF at_commit
    THEN [committed EXCEPT !.documents[d].processed_status = "Failed",
                           !.documents[d].error = TRUE]
    ELSE committed

\* the session after an iteration that went through
NextIteration(r, t, commits) ==
    [session EXCEPT
        !.idx = @ + 1,
        !.flushed = IF commits THEN Len(t.requests) ELSE r.flushed,
        !.committed = IF commits THEN t ELSE @,
        !.linked = IF commits THEN << >>
                   ELSE IF r.outcome = "linked" THEN Append(@, Val(r.feature_id)) ELSE @,
        !.created = IF commits THEN 0
                    ELSE IF r.outcome = "created" THEN @ + 1 ELSE @]

\* the end of an iteration of process_rfp_file: the periodic commit, or the
\* failure of the flush of the iteration or of that commit
RfpFileIteration(r, t, commits) ==
    IF r.outcome = "failed"
    THEN /\ Install(RfpFileFailure(session.committed, session.document_id, FALSE))
         /\ session' = Idle
    ELSE IF commits /\ ~CanFlush(t.requests, r.flushed)
    THEN /\ Install(RfpFileFailure(session.committed, session.document_id, TRUE))
         /\ session' = Idle
    ELSE /\ Install(t)
         /\ session' = NextIteration(r, t, commits)

\* the pair of the iteration is added with the feature it was resolved to
RfpFileResolved(r, qa) ==
    RfpFileIteration(r,
        [r.tables EXCEPT
            !.qa_pairs = Append(@, [document_id |-> session.document_id,
                                    question |-> qa.question,
                                    answer |-> qa.answer,
                                    feature_id |-> r.feature_id]),
            !.documents[session.document_id].processed_questions = Some(session.idx + 1)],
        (session.idx + 1) % CommitEvery = 0)

\* one iteration of the loop of process_rfp_file
process_rfp_file_pair ==
    /\ session.state = "running"
    /\ session.handler = "process_rfp_file"
    /\ session.idx < Len(session.file)
    /\ \E rows \in SelectOrders(features) :
          RfpFileResolved(
              ResolvePair(Tables, session.flushed,
                          session.file[session.idx + 1].question,
                          session.file[session.idx + 1].answer,
                          file_threshold, rows, session.link, session.create,
                          documents[session.document_id].customer_id, Null),
              session.file[session.idx + 1])
    /\ UNCHANGED scoreVars

\* process_rfp_file after its loop: Complete and the final commit
process_rfp_file_finish ==
    /\ session.state = "running"
    /\ session.handler = "process_rfp_file"
    /\ session.idx = Len(session.file)
    /\ LET d == session.document_id
           t == [Tables EXCEPT !.documents[d].processed_status = "Complete"]
       IN  IF CanFlush(t.requests, session.flushed)
           THEN Install(t)
           ELSE Install(RfpFileFailure(session.committed, d, TRUE))
    /\ session' = Idle
    /\ UNCHANGED scoreVars

\* POST /rfp/process: process_document is scheduled as a background task
process_rfp_document(document_id, auto_link_features, generate_feature_suggestions) ==
    /\ session = Idle
    /\ document_id \in 1..Len(documents)
    /\ CorpusSize < MaxCorpus
    /\ session' = Task("scheduled", "process_document", document_id, << >>,
                       auto_link_features, generate_feature_suggestions, << >>, Tables)
    /\ UNCHANGED <<features, requests, epics, documents, qa_pairs>>
    /\ UNCHANGED scoreVars

\* process_document up to its loop: the pairs of the document are selected and
\* Processing is committed
process_document_start ==
    /\ session.state = "scheduled"
    /\ session.handler = "process_document"
    /\ LET d == session.document_id
           t == [Tables EXCEPT !.documents[d].processed_status = "Processing"]
           selected == SelectSeq([i \in 1..Len(qa_pairs) |-> i],
                                 LAMBDA i : qa_pairs[i].document_id = d)
       IN  /\ Install(t)
           /\ session' = Task("running", session.handler, d, << >>,
                              session.link, session.create, selected, t)
    /\ UNCHANGED scoreVars

\* the database state after the except block of process_document: the rollback
\* has expired the document, reading document.business_context raises in the
\* block and the Failed status is never committed
DocumentFailure(committed) == committed

\* the end of an iteration of process_document
DocumentIteration(r, t, commits) ==
    IF r.outcome = "failed" \/ (commits /\ ~CanFlush(t.requests, r.flushed))
    THEN /\ Install(DocumentFailure(session.committed))
         /\ session' = Idle
    ELSE /\ Install(t)
         /\ session' = NextIteration(r, t, commits)

\* qa_pair.feature_id of the pair p that was linked or created
DocumentResolved(r, p) ==
    DocumentIteration(r,
        IF r.outcome \in {"linked", "created"}
        THEN [r.tables EXCEPT !.qa_pairs[p].feature_id = r.feature_id]
        ELSE r.tables,
        (session.idx + 1) % CommitEvery = 0)

\* one iteration of the loop of process_document
process_document_pair ==
    /\ session.state = "running"
    /\ session.handler = "process_document"
    /\ session.idx < Len(session.pairs)
    /\ \E rows \in SelectOrders(features) :
          DocumentResolved(
              ResolvePair(Tables, session.flushed,
                          qa_pairs[session.pairs[session.idx + 1]].question,
                          qa_pairs[session.pairs[session.idx + 1]].answer,
                          similarity_threshold, rows, session.link, session.create,
                          documents[session.document_id].customer_id,
                          documents[session.document_id].customer_id),
              session.pairs[session.idx + 1])
    /\ UNCHANGED scoreVars

\* process_document after its loop: Complete, the processed count and the
\* final commit
process_document_finish ==
    /\ session.state = "running"
    /\ session.handler = "process_document"
    /\ session.idx = Len(session.pairs)
    /\ LET d == session.document_id
           t == [Tables EXCEPT !.documents[d].processed_status = "Complete",
                               !.documents[d].processed_questions = Some(session.idx)]
       IN  IF CanFlush(t.requests, session.flushed)
           THEN Install(t)
           ELSE Install(DocumentFailure(session.committed))
    /\ session' = Idle
    /\ UNCHANGED scoreVars

(***************************************************************************)
(* The RFP endpoints over the corpus: uploads of three files, with and     *)
(* without a customer, for analysis and for response, and POST             *)
(* /rfp/process on what has been uploaded.                                 *)
(***************************************************************************)
ExportPair == [question |-> ExportQuestion, answer |-> YesAnswer]
AuditPair == [question |-> AuditQuestion, answer |-> UserAnswer]
HoursPair == [question |-> HoursQuestion, answer |-> NoAnswer]
\* a row whose question and answer cells hold blanks only
BlankPair == [question |-> <<" ">>, answer |-> <<" ", " ">>]

Files == {<<AuditPair>>, <<HoursPair, ExportPair>>, <<BlankPair>>}
\* document.customer_id: NULL or a customer
DocumentCustomers == {Null, Some(1)}

NextRfp ==
    \/ \E c \in DocumentCustomers, purpose \in Purposes, file \in Files :
           upload_rfp_document(c, purpose, file)
    \/ process_rfp_file_start
    \/ process_rfp_file_pair
    \/ process_rfp_file_finish
    \/ \E d \in 1..Len(documents), a \in BOOLEAN, g \in BOOLEAN :
           process_rfp_document(d, a, g)
    \/ process_document_start
    \/ process_document_pair
    \/ process_document_finish

SpecRfp == Init /\ [][NextRfp]_vars


(***************************************************************************)
(* POST /rfp/process on one document uploaded for response, whose only     *)
(* question is drawn: every sequence of up to MaxWords words of the        *)
(* vocabulary and the examples, as far as extract_questions_only keeps     *)
(* them (more than ten characters).                                        *)
(***************************************************************************)
\* Can
WordCan ==
    <<"C", "a", "n">>

\* how
WordHow ==
    <<"h", "o", "w">>

\* export
WordExport ==
    <<"e", "x", "p", "o", "r", "t">>

\* PDF?!
WordPdf ==
    <<"P", "D", "F", "?", "!">>

\* what?
WordWhat ==
    <<"w", "h", "a", "t", "?">>

\* Can we  export\nreports to PDF?
SpacedQuestion ==
    <<"C", "a", "n", " ", "w", "e", " ", " ", "e", "x", "p", "o", "r", "t",
      "\n", "r", "e", "p", "o", "r", "t", "s", " ", "t", "o", " ", "P", "D",
      "F", "?">>

\* Can we export ?
BareMarkQuestion ==
    <<"C", "a", "n", " ", "w", "e", " ", "e", "x", "p", "o", "r", "t", " ",
      "?">>

\* Could you
CouldYou ==
    <<"C", "o", "u", "l", "d", " ", "y", "o", "u">>

\*  export reports
ExportReports ==
    <<" ", "e", "x", "p", "o", "r", "t", " ", "r", "e", "p", "o", "r", "t",
      "s">>

Vocabulary == {WordCan, WordHow, WordExport, WordPdf, WordWhat}

RECURSIVE Repeat(_, _)
Repeat(s, n) == IF n = 0 THEN << >> ELSE s \o Repeat(s, n - 1)

\* a question of more than TitleMaxLength characters
LongQuestion == CouldYou \o Repeat(ExportReports, 7)

\* Could would will
AllQuestionWords ==
    <<"C", "o", "u", "l", "d", " ", "w", "o", "u", "l", "d", " ", "w", "i",
      "l", "l">>

ExampleQuestions ==
    {ExportQuestion, SpacedQuestion, BareMarkQuestion, LongQuestion, AllQuestionWords}

\* the questions of exactly n words of the vocabulary, one space between them
RECURSIVE WordSequences(_)
WordSequences(n) ==
    IF n = 1 THEN Vocabulary
    ELSE {q \o <<" ">> \o w : q \in WordSequences(n - 1), w \in Vocabulary}

\* len(text) > 10
DrawnQuestions ==
    {q \in ExampleQuestions \cup UNION {WordSequences(n) : n \in 1..MaxWords} :
        Len(q) > MinQuestionLength}

InitTitle ==
    /\ features = Corpus
    /\ epics = <<"Reporting">>
    /\ requests = << >>
    /\ trends = << >>
    /\ impacts = << >>
    /\ markets = << >>
    /\ snapshots = << >>
    /\ scoring = NoScoring
    /\ \E c \in DocumentCustomers :
          documents = <<[customer_id |-> c,
                         processed_status |-> "Complete",
                         purpose |-> "respond",
                         total_questions |-> Some(1),
                         processed_questions |-> Some(1),
                         error |-> FALSE]>>
    /\ \E q \in DrawnQuestions :
          qa_pairs = <<[document_id |-> 1, question |-> q, answer |-> << >>,
                        feature_id |-> Null]>>
    /\ session = Idle
    /\ call = NoCall
    /\ handlers = << >>
    /\ analysis_cache = {}
    /\ now = 0
    /\ epic_status = <<"Draft">>
    /\ reports = << >>

NextTitle ==
    \/ \E d \in 1..Len(documents), g \in BOOLEAN : process_rfp_document(d, TRUE, g)
    \/ process_document_start
    \/ process_document_pair
    \/ process_document_finish

SpecTitle == InitTitle /\ [][NextTitle]_vars

(***************************************************************************)
(* The RFP endpoints over two features that are equally similar to every   *)
(* text: their texts have the same eight lexical features.  One file with  *)
(* one request is uploaded, and POST /rfp/process resolves it again.       *)
(***************************************************************************)
\* Role audit
RoleAuditDescription ==
    <<"R", "o", "l", "e", " ", "a", "u", "d", "i", "t">>

TieCorpus ==
    <<NewFeature(1, AuditLogTitle, AuditLogDescription),
      NewFeature(1, AuditLogTitle, RoleAuditDescription)>>

InitTie ==
    /\ features = TieCorpus
    /\ epics = <<"Reporting">>
    /\ requests = << >>
    /\ trends = << >>
    /\ impacts = << >>
    /\ markets = << >>
    /\ snapshots = << >>
    /\ scoring = NoScoring
    /\ documents = << >>
    /\ qa_pairs = << >>
    /\ session = Idle
    /\ call = NoCall
    /\ handlers = << >>
    /\ analysis_cache = {}
    /\ now = 0
    /\ epic_status = <<"Draft">>
    /\ reports = << >>

NextTie ==
    \/ \E c \in DocumentCustomers, purpose \in Purposes :
           upload_rfp_document(c, purpose, <<AuditPair>>)
    \/ process_rfp_file_start
    \/ process_rfp_file_pair
    \/ process_rfp_file_finish
    \/ \E d \in 1..Len(documents), a \in BOOLEAN, g \in BOOLEAN :
           process_rfp_document(d, a, g)
    \/ process_document_start
    \/ process_document_pair
    \/ process_document_finish

SpecTie == InitTie /\ [][NextTie]_vars


(***************************************************************************)
(* The routines of the matcher, called on their own.  The arguments are    *)
(* drawn: either a query vector, a list of up to MaxEmbeddings vectors and *)
(* top_k, for find_similar_embeddings, compute_similarity and              *)
(* _cosine_similarity; or a text and a table of up to MaxEmbeddings        *)
(* features, for find_similar_features.  The threshold varies from call to *)
(* call.                                                                   *)
(***************************************************************************)
\* the tables and the background task, which no call of a routine touches
tableVars == <<features, epics, requests, trends, impacts, markets, snapshots, scoring,
               documents, qa_pairs, session, handlers, analysis_cache, now, epic_status,
               reports>>

\* vectors of every direction of the plane the cosine tells apart, and the zero vector
Vectors == {<<0, 0>>, <<1, 0>>, <<0, 1>>, <<1, 1>>, <<-1, 0>>}

RECURSIVE ListsOf(_, _)
ListsOf(S, n) ==
    IF n = 0 THEN {<< >>}
    ELSE ListsOf(S, n - 1) \cup {Append(l, x) : l \in {m \in ListsOf(S, n - 1) : Len(m) = n - 1}, x \in S}

TopKs == 0..2
Thresholds == {Rat(0, 1), Rat(1, 2), Rat(3, 4), Rat(1, 1)}
FeatureThresholds == {file_threshold, similarity_threshold}

\* features with and without a description, two of them with equal embeddings
FeaturePool ==
    {NewFeature(1, PdfExportTitle, PdfExportDescription),
     NewFeature(1, PdfExportTitle, << >>),
     NewFeature(1, AuditLogTitle, AuditLogDescription),
     NewFeature(1, AuditLogTitle, RoleAuditDescription)}

QueryTexts ==
    {AuditQuestion \o <<" ">> \o UserAnswer, ExportQuestion \o <<" ">> \o YesAnswer}

InitSimilar ==
    /\ epics = <<"Reporting">>
    /\ requests = << >>
    /\ trends = << >>
    /\ impacts = << >>
    /\ markets = << >>
    /\ snapshots = << >>
    /\ scoring = NoScoring
    /\ documents = << >>
    /\ qa_pairs = << >>
    /\ session = Idle
    /\ \/ /\ features = Corpus
          /\ \E q \in Vectors, e \in ListsOf(Vectors, MaxEmbeddings), k \in TopKs :
                call = [routine |-> "none", query_embedding |-> q, embeddings |-> e,
                        top_k |-> k]
       \/ /\ features \in ListsOf(FeaturePool, MaxEmbeddings)
          /\ \E t \in QueryTexts : call = [routine |-> "none", text |-> t]
    /\ handlers = << >>
    /\ analysis_cache = {}
    /\ now = 0
    /\ epic_status = <<"Draft">>
    /\ reports = << >>

\* what the call before this one returned for its threshold, if it was a call
\* of find_similar_embeddings
Before ==
    IF call.routine = "find_similar_embeddings"
    THEN Some([threshold |-> call.threshold, count |-> Len(call.result)])
    ELSE Null

FindSimilarEmbeddings(threshold) ==
    /\ "embeddings" \in DOMAIN call
    /\ call' = [routine |-> "find_similar_embeddings",
                query_embedding |-> call.query_embedding,
                embeddings |-> call.embeddings,
                top_k |-> call.top_k,
                threshold |-> threshold,
                result |-> find_similar_embeddings(call.query_embedding, call.embeddings,
                                                   threshold, call.top_k),
                before |-> Before]
    /\ UNCHANGED tableVars

ComputeSimilarity(i) ==
    /\ "embeddings" \in DOMAIN call
    /\ i \in 1..Len(call.embeddings)
    /\ call' = [routine |-> "compute_similarity",
                query_embedding |-> call.query_embedding,
                embeddings |-> call.embeddings,
                top_k |-> call.top_k,
                embedding1 |-> call.query_embedding,
                embedding2 |-> call.embeddings[i],
                result |-> compute_similarity(call.query_embedding, call.embeddings[i])]
    /\ UNCHANGED tableVars

CosineSimilarityOf(i) ==
    /\ "embeddings" \in DOMAIN call
    /\ i \in 1..Len(call.embeddings)
    /\ call' = [routine |-> "_cosine_similarity",
                query_embedding |-> call.query_embedding,
                embeddings |-> call.embeddings,
                top_k |-> call.top_k,
                vec1 |-> call.query_embedding,
                vec2 |-> call.embeddings[i],
                result |-> CosineSimilarity(call.query_embedding, call.embeddings[i])]
    /\ UNCHANGED tableVars

FindSimilarFeatures(threshold) ==
    /\ "text" \in DOMAIN call
    /\ \E rows \in SelectOrders(features) :
          call' = [routine |-> "find_similar_features",
                   text |-> call.text,
                   threshold |-> threshold,
                   result |-> find_similar_features(GenerateEmbedding(call.text),
                                                    threshold, rows, features)]
    /\ UNCHANGED tableVars

NextSimilar ==
    \/ \E threshold \in Thresholds : FindSimilarEmbeddings(threshold)
    \/ \E i \in 1..MaxEmbeddings : ComputeSimilarity(i)
    \/ \E i \in 1..MaxEmbeddings : CosineSimilarityOf(i)
    \/ \E threshold \in FeatureThresholds : FindSimilarFeatures(threshold)

SpecSimilar == InitSimilar /\ [][NextSimilar]_vars


(***************************************************************************)
(* The endpoints that create and update features (api/v1/features.py,      *)
(* api/v1/epics.py) and the creation of a feature from a question/answer   *)
(* pair.  Here the description column keeps the difference between NULL    *)
(* and the empty string: it is Null or Some(text).                         *)
(***************************************************************************)
\* str(None)
NoneText == <<"N", "o", "n", "e">>

\* what an f-string puts for {description}
Formatted(description) == IF description = Null THEN NoneText ELSE Val(description)

\* description or ''
OrEmpty(description) == IF description = Null THEN << >> ELSE Val(description)

\* Audit Log
AuditLogCapitalTitle ==
    <<"A", "u", "d", "i", "t", " ", "L", "o", "g">>

FeatureTitles == {PdfExportTitle, AuditLogCapitalTitle}

FeatureDescriptions == {Null, Some(<< >>), Some(PdfExportDescription)}

\* the epic ids of the requests: the epic that exists and one that does not
RequestedEpics == 1..2

\* the fields a FeatureUpdate can set (exclude_unset keeps only those sent)
FeatureUpdates ==
    {[title |-> t] : t \in FeatureTitles}
        \cup {[description |-> d] : d \in FeatureDescriptions}
        \cup {[title |-> t, description |-> d] : t \in FeatureTitles, d \in FeatureDescriptions}

InitFeature ==
    /\ features = << >>
    /\ epics = <<"Reporting">>
    /\ requests = << >>
    /\ trends = << >>
    /\ impacts = << >>
    /\ markets = << >>
    /\ snapshots = << >>
    /\ scoring = NoScoring
    /\ documents = << >>
    /\ qa_pairs = << >>
    /\ session = Idle
    /\ call = NoCall
    /\ handlers = << >>
    /\ analysis_cache = {}
    /\ now = 0
    /\ epic_status = <<"Draft">>
    /\ reports = << >>

create_feature(epic_id, title, description) ==
    /\ epic_id \in 1..Len(epics)
    /\ Len(features) < MaxFeatures
    /\ features' = Append(features,
                          [epic_id |-> epic_id,
                           title |-> title,
                           description |-> description,
                           normalized_text |->
                               StrLower(title \o <<" ">> \o Formatted(description)),
                           customer_request_count |-> 0])
    /\ UNCHANGED <<epics, requests, documents, qa_pairs, session>>
    /\ UNCHANGED scoreVars

create_feature_in_epic(epic_id, title, description) ==
    /\ epic_id \in 1..Len(epics)
    /\ Len(features) < MaxFeatures
    /\ features' = Append(features,
                          [epic_id |-> epic_id,
                           title |-> title,
                           description |-> description,
                           normalized_text |->
                               StrLower(title \o <<" ">> \o OrEmpty(description)),
                           customer_request_count |-> 0])
    /\ UNCHANGED <<epics, requests, documents, qa_pairs, session>>
    /\ UNCHANGED scoreVars

\* update_data.get(field, current)
UpdateGet(update_data, field, current) ==
    IF field \in DOMAIN update_data THEN update_data[field] ELSE current

update_feature(feature_id, update_data) ==
    /\ feature_id \in 1..Len(features)
    /\ features' =
          [features EXCEPT ![feature_id] =
              [@ EXCEPT !.title = UpdateGet(update_data, "title", @),
                        !.description = UpdateGet(update_data, "description", @),
                        !.normalized_text =
                            StrLower(UpdateGet(update_data, "title",
                                               features[feature_id].title)
                                     \o <<" ">>
                                     \o Formatted(UpdateGet(update_data, "description",
                                                  features[feature_id].description)))]]
    /\ UNCHANGED <<epics, requests, documents, qa_pairs, session>>
    /\ UNCHANGED scoreVars

\* _create_feature_from_qa for a document without customer, committed
CreateFeatureFromQa(qa_pair) ==
    /\ Len(features) < MaxFeatures
    /\ LET t == create_feature_from_qa([Tables EXCEPT !.features = << >>],
                                       qa_pair.question, qa_pair.answer, Null)
       IN  /\ features' = Append(features,
                                 [t.features[1] EXCEPT !.description = Some(@)])
           /\ epics' = t.epics
    /\ UNCHANGED <<requests, documents, qa_pairs, session>>
    /\ UNCHANGED scoreVars

NextFeature ==
    \/ \E e \in RequestedEpics, t \in FeatureTitles, d \in FeatureDescriptions :
          create_feature(e, t, d)
    \/ \E e \in RequestedEpics, t \in FeatureTitles, d \in FeatureDescriptions :
          create_feature_in_epic(e, t, d)
    \/ \E f \in 1..MaxFeatures, u \in FeatureUpdates : update_feature(f, u)
    \/ \E qa_pair \in {ExportPair, AuditPair} : CreateFeatureFromQa(qa_pair)

SpecFeature == InitFeature /\ [][NextFeature]_vars


(***************************************************************************)
(* Request handlers running concurrently.  Each handler has its own        *)
(* session: it loads the feature row (create_feature_request with a        *)
(* select by id, the RFP handlers in find_similar_features), adds one to   *)
(* the customer_request_count it loaded, and writes that value back when   *)
(* it commits.  No handler locks the row (no SELECT ... FOR UPDATE), no    *)
(* version column guards the UPDATE, and the sessions run under the        *)
(* default isolation level, where the later UPDATE overwrites the earlier. *)
(***************************************************************************)
HandlerKinds == {"create_feature_request", "process_document", "process_rfp_file"}

\* the handler loads the row of the feature it is about
LoadFeature(kind, feature_id, urgency) ==
    /\ Len(handlers) < MaxHandlers
    /\ feature_id \in ExistingFeatures
    /\ handlers' = Append(handlers,
                          [kind |-> kind,
                           feature_id |-> feature_id,
                           urgency |-> urgency,
                           customer_request_count |->
                               features[feature_id].customer_request_count,
                           committed |-> FALSE])
    /\ UNCHANGED <<features, epics, requests, trends, impacts, markets, snapshots,
                   scoring, documents, qa_pairs, session, call, analysis_cache, now,
                   epic_status, reports>>

\* feature.customer_request_count += 1 on the loaded row, then commit: the
\* UPDATE carries the value computed from what the handler loaded
CommitHandler(h) ==
    /\ h \in 1..Len(handlers)
    /\ ~handlers[h].committed
    /\ features' = [features EXCEPT ![handlers[h].feature_id].customer_request_count =
                                        handlers[h].customer_request_count + 1]
    /\ requests' = IF handlers[h].kind = "create_feature_request"
                   THEN Append(requests, [feature_id |-> handlers[h].feature_id,
                                          customer_id |-> 1,
                                          urgency |-> handlers[h].urgency,
                                          source |-> None])
                   ELSE requests
    /\ handlers' = [handlers EXCEPT ![h].committed = TRUE]
    /\ UNCHANGED <<epics, trends, impacts, markets, snapshots, scoring, documents,
                   qa_pairs, session, call, analysis_cache, now, epic_status, reports>>

NextConcurrent ==
    \/ \E kind \in HandlerKinds, f \in ExistingFeatures, u \in {"High", "Critical"} :
          LoadFeature(kind, f, u)
    \/ \E h \in 1..MaxHandlers : CommitHandler(h)

SpecConcurrent == Init /\ [][NextConcurrent]_vars


(***************************************************************************)
(* AgnoWorkflowServiceV2._process_workflow_results, _categorize_data and   *)
(* _store_analysis_results.  A workflow response carries step responses;   *)
(* the content of a step is a structured result (it has model_dump) or a   *)
(* string, which is parsed when it holds "SUCCESS: <type>" sections.  The  *)
(* values of the dicts are numbers, in tenths, texts or lists.             *)
(***************************************************************************)
Number(n) == [type |-> "number", value |-> n]
Text(s) == [type |-> "text", value |-> s]
List(l) == [type |-> "list", value |-> l]

\* float(token) for a token matched by [0-9.]+ : the value in tenths, or
\* Null when float raises ValueError (no digit, or more than one point)
RECURSIVE DigitsValue(_)
DigitsValue(s) ==
    IF s = << >> THEN 0
    ELSE 10 * DigitsValue(SubSeq(s, 1, Len(s) - 1))
           + (CHOOSE d \in 0..9 : ToString(d) = s[Len(s)])

ParseFloat(token) ==
    LET points == {i \in 1..Len(token) : token[i] = "."}
    IN  IF Cardinality(points) > 1 \/ CountChars(token, Digits) = 0 THEN Null
        ELSE IF points = {} THEN Some(10 * DigitsValue(token))
        ELSE LET p == CHOOSE i \in points : TRUE
                 whole == SubSeq(token, 1, p - 1)
                 tenth == IF p < Len(token) THEN SubSeq(token, p + 1, p + 1) ELSE << >>
             IN  Some(10 * DigitsValue(whole) + DigitsValue(tenth))

NoData == [trend |-> Null, business |-> Null, competitive |-> Null,
           geographic |-> Null, priority |-> Null]

_categorize_data(data, d) ==
    LET analysis_type == DictGet(data, "analysis_type", Text("")).value
    IN  IF analysis_type = "trend" THEN [d EXCEPT !.trend = Some(data)]
        ELSE IF analysis_type = "business_impact" THEN [d EXCEPT !.business = Some(data)]
        ELSE IF analysis_type = "competitive" THEN [d EXCEPT !.competitive = Some(data)]
        ELSE IF analysis_type = "geographic" THEN [d EXCEPT !.geographic = Some(data)]
        ELSE IF analysis_type = "priority" THEN [d EXCEPT !.priority = Some(data)]
        ELSE d

\* the score a section of the given type is searched for
ScoreKey(analysis_type) ==
    IF analysis_type = "trend_analysis" THEN "alignment_score"
    ELSE IF analysis_type = "business_impact" THEN "impact_score"
    ELSE IF analysis_type = "competitive_analysis" THEN "opportunity_score"
    ELSE "confidence_score"

\* the dict extracted from one "SUCCESS: <type>" section, Null when the
\* extraction raises: the exception is caught and the section is skipped
SectionData(section) ==
    IF ParseFloat(section.score) = Null THEN Null
    ELSE Some([k \in {"analysis_type", ScoreKey(section.analysis_type)} |->
                  IF k = "analysis_type" THEN Text(section.declared)
                  ELSE Number(Val(ParseFloat(section.score)))])

RECURSIVE CategorizedSections(_, _)
CategorizedSections(sections, d) ==
    IF sections = << >> THEN d
    ELSE CategorizedSections(Tail(sections),
                             IF SectionData(Head(sections)) = Null THEN d
                             ELSE _categorize_data(Val(SectionData(Head(sections))), d))

\* the loop over response.step_responses: structured contents are
\* categorized, strings are parsed section by section, a string without
\* "SUCCESS:" has no section
RECURSIVE CategorizedSteps(_, _)
CategorizedSteps(step_responses, d) ==
    IF step_responses = << >> THEN d
    ELSE CategorizedSteps(Tail(step_responses),
                          IF Head(step_responses).type = "model"
                          THEN _categorize_data(Head(step_responses).data, d)
                          ELSE CategorizedSections(Head(step_responses).sections, d))

\* the second loop over response.step_responses, which categorizes the
\* structured contents once more
RECURSIVE CategorizedAgain(_, _)
CategorizedAgain(step_responses, d) ==
    IF step_responses = << >> THEN d
    ELSE CategorizedAgain(Tail(step_responses),
                          IF Head(step_responses).type = "model"
                          THEN _categorize_data(Head(step_responses).data, d)
                          ELSE d)

get_impact_level(score) ==
    IF score >= 700 THEN "High" ELSE IF score >= 400 THEN "Medium" ELSE "Low"

RECURSIVE SumMarketSize(_)
SumMarketSize(regions) ==
    IF regions = << >> THEN 0
    ELSE DictGet(Head(regions), "market_size", Number(0)).value
           + SumMarketSize(Tail(regions))

\* an expression of _store_analysis_results raises: a text where the code
\* compares, converts or adds numbers
StoreRaises(d) ==
    \/ /\ d.geographic # Null
       /\ "regions" \in DOMAIN Val(d.geographic)
       /\ \E i \in 1..Len(Val(d.geographic).regions.value) :
             DictGet(Val(d.geographic).regions.value[i], "market_size",
                     Number(0)).type # "number"
    \/ /\ d.trend # Null
       /\ DictGet(Val(d.trend), "alignment_score", Number(0)).type # "number"
    \/ /\ d.business # Null
       /\ \/ DictGet(Val(d.business), "impact_score", Number(0)).type # "number"
          \/ DictGet(Val(d.business), "user_adoption_score", Number(500)).type # "number"
    \/ /\ d.competitive # Null
       /\ DictGet(Val(d.competitive), "opportunity_score", Number(0)).type # "number"
    \/ /\ d.priority # Null
       /\ DictGet(Val(d.priority), "priority_score", Number(0)).type # "number"

FeatureAnalysisReport(feature_id, d) ==
    [feature_id |-> feature_id,
     trend_alignment_status |->
         IF d.trend = Null THEN FALSE
         ELSE DictGet(Val(d.trend), "alignment_score", Number(0)).value > 5,
     business_impact_score |->
         IF d.business = Null THEN Null
         ELSE Some(DictGet(Val(d.business), "impact_score", Number(0)).value \div 10),
     revenue_potential |->
         IF d.business = Null THEN Null
         ELSE Some(get_impact_level(DictGet(Val(d.business), "impact_score",
                                            Number(0)).value)),
     user_adoption_forecast |->
         IF d.business = Null THEN Null
         ELSE Some(get_impact_level(DictGet(Val(d.business), "user_adoption_score",
                                            Number(500)).value)),
     total_competitors_analyzed |->
         IF d.competitive = Null THEN 0
         ELSE Len(DictGet(Val(d.competitive), "competitors", List(<< >>)).value),
     competitors_providing_count |->
         IF d.competitive = Null THEN 0
         ELSE Cardinality({i \in 1..Len(DictGet(Val(d.competitive), "competitors",
                                                List(<< >>)).value) :
                 DictGet(DictGet(Val(d.competitive), "competitors",
                                 List(<< >>)).value[i], "has_feature", FALSE)}),
     market_opportunity_score |->
         IF d.competitive = Null THEN Null
         ELSE Some(DictGet(Val(d.competitive), "opportunity_score", Number(0)).value),
     geographic_insights |->
         IF d.geographic # Null /\ "regions" \in DOMAIN Val(d.geographic)
         THEN Some([total_market_size |->
                        SumMarketSize(Val(d.geographic).regions.value)])
         ELSE Null,
     priority_score |->
         IF d.priority = Null THEN Null
         ELSE Some(DictGet(Val(d.priority), "priority_score", Number(0)).value)]

\* what _store_analysis_results returns
StoreResult(feature_id, d) ==
    IF StoreRaises(d) THEN [feature_id |-> feature_id, stored |-> FALSE]
    ELSE [feature_id |-> feature_id,
          stored |-> TRUE,
          has_trend_data |-> d.trend # Null,
          has_business_data |-> d.business # Null,
          has_competitive_data |-> d.competitive # Null,
          has_geographic_data |-> d.geographic # Null,
          has_priority_data |-> d.priority # Null]

\* the outputs of the agents the responses are drawn from
TrendResult == [analysis_type |-> Text("trend"), alignment_score |-> Number(8)]

BusinessImpactResult ==
    [analysis_type |-> Text("business_impact"), impact_score |-> Number(750),
     user_adoption_score |-> Number(300)]

CompetitiveResult ==
    [analysis_type |-> Text("competitive"), opportunity_score |-> Number(70),
     competitors |-> List(<<[has_feature |-> TRUE], [has_feature |-> FALSE]>>)]

GeographicResult ==
    [analysis_type |-> Text("geographic"),
     regions |-> List(<<[market_size |-> Number(1000)], [market_size |-> Number(500)]>>)]

\* a region whose market size is a text: a valid Dict[str, Any]
GeographicTextResult ==
    [analysis_type |-> Text("geographic"),
     regions |-> List(<<[market_size |-> Number(1000)], [market_size |-> Text("large")]>>)]

Model(data) == [type |-> "model", data |-> data]
\* a string content, with the sections "SUCCESS: <type>" found in it
String(sections) == [type |-> "str", sections |-> sections]

TrendSection(score) ==
    [analysis_type |-> "trend_analysis", declared |-> "trend", score |-> score]

Kinds == <<"trend", "business", "competitive", "geographic">>

\* what the step of a kind returned: nothing, a well-formed result, a text
\* that cannot be parsed, a section with a score that is not a number, a
\* well-formed section, a result with a text where a number belongs
StepOutcomes ==
    {o \in [{"trend", "business", "competitive", "geographic"} ->
              {"absent", "result", "unparseable", "section", "bad_section", "text_value"}] :
        /\ o.trend # "text_value"
        /\ o.business \in {"absent", "result"}
        /\ o.competitive \in {"absent", "result"}
        /\ o.geographic \in {"absent", "result", "unparseable", "text_value"}}

StepOf(kind, outcome) ==
    IF outcome = "absent" THEN << >>
    ELSE IF outcome = "unparseable" THEN <<String(<< >>)>>
    ELSE IF outcome = "section" THEN <<String(<<TrendSection(<<"0", ".", "8">>)>>)>>
    ELSE IF outcome = "bad_section"
         THEN <<String(<<TrendSection(<<"0", ".", "8", ".", "1">>)>>)>>
    ELSE IF outcome = "text_value" THEN <<Model(GeographicTextResult)>>
    ELSE IF kind = "trend" THEN <<Model(TrendResult)>>
    ELSE IF kind = "business" THEN <<Model(BusinessImpactResult)>>
    ELSE IF kind = "competitive" THEN <<Model(CompetitiveResult)>>
    ELSE <<Model(GeographicResult)>>

StepResponses(o) ==
    StepOf("trend", o.trend) \o StepOf("business", o.business)
        \o StepOf("competitive", o.competitive) \o StepOf("geographic", o.geographic)

Categorized(step_responses) ==
    CategorizedAgain(step_responses, CategorizedSteps(step_responses, NoData))

\* _store_analysis_results: the report is added and committed, or the
\* exception is caught and the session rolled back
_store_analysis_results(feature_id, outcomes, d) ==
    /\ reports' = IF StoreRaises(d) THEN reports
                  ELSE Append(reports, FeatureAnalysisReport(feature_id, d))
    /\ call' = [routine |-> "_process_workflow_results",
                feature_id |-> feature_id,
                outcomes |-> outcomes,
                result |-> StoreResult(feature_id, d)]

_process_workflow_results(feature_id, outcomes) ==
    /\ feature_id \in ExistingFeatures
    /\ Len(reports) < MaxReports
    /\ _store_analysis_results(feature_id, outcomes, Categorized(StepResponses(outcomes)))
    /\ UNCHANGED <<features, epics, requests, trends, impacts, markets, snapshots,
                   scoring, documents, qa_pairs, session, handlers, analysis_cache,
                   now, epic_status>>

NextWorkflow ==
    \E f \in ExistingFeatures, o \in StepOutcomes : _process_workflow_results(f, o)

SpecWorkflow == Init /\ [][NextWorkflow]_vars


(***************************************************************************)
(* The analyze endpoints: trigger_feature_analysis (api/v1/features.py),   *)
(* trigger_epic_analysis (api/v1/epics.py) and the service calls behind    *)
(* them, AgnoWorkflowServiceV2.analyze_feature and analyze_epic.  What the *)
(* service meets is drawn: the call itself raises (the service replaced by *)
(* one that is down), analyze_epic reports a failed result, the workflow   *)
(* raises inside analyze_feature, or the workflow responds.                *)
(***************************************************************************)
Unavailable == "Analysis service temporarily unavailable"

AllResults ==
    [trend |-> "result", business |-> "result", competitive |-> "result",
     geographic |-> "result"]

ServiceBehaviours ==
    {[mode |-> "raises", outcomes |-> AllResults],
     [mode |-> "fails", outcomes |-> AllResults],
     [mode |-> "workflow_raises", outcomes |-> AllResults],
     [mode |-> "responds", outcomes |-> AllResults],
     [mode |-> "responds", outcomes |-> [AllResults EXCEPT !.geographic = "text_value"]]}

\* an epic with a feature and an epic without
InitAnalyze ==
    /\ features = <<NewFeature(1, PdfExportTitle, PdfExportDescription)>>
    /\ epics = <<"Reporting", "Empty Epic">>
    /\ epic_status \in [1..2 -> {"Draft", "Analyzed"}]
    /\ requests = << >>
    /\ trends = << >>
    /\ impacts = << >>
    /\ markets = << >>
    /\ snapshots = << >>
    /\ scoring = NoScoring
    /\ documents = << >>
    /\ qa_pairs = << >>
    /\ session = Idle
    /\ call = NoCall
    /\ handlers = << >>
    /\ analysis_cache = {}
    /\ now = 0
    /\ reports = << >>

\* analyze_feature: the result it returns and the reports table after it;
\* every exception of the workflow is caught and reported as a failed result
analyze_feature(feature_id, service, table) ==
    IF service.mode \in {"workflow_raises", "fails"}
    THEN [result |-> [status |-> "failed"], reports |-> table]
    ELSE [result |-> [status |-> "completed"],
          reports |-> IF StoreRaises(Categorized(StepResponses(service.outcomes)))
                      THEN table
                      ELSE Append(table,
                                  FeatureAnalysisReport(feature_id,
                                      Categorized(StepResponses(service.outcomes))))]

\* the response of an analyze endpoint to what the service call did: a
\* failed result raises the 500 inside the try block, where the handler of
\* Exception catches it, like an exception of the call, and raises the 503
AnalyzeResponse_Uncaught(raised, result) ==
    IF raised THEN [status_code |-> 503, detail |-> Unavailable]
    ELSE IF result.status = "completed" THEN [status_code |-> 202, detail |-> ""]
    ELSE [status_code |-> 500, detail |-> "Analysis failed"]
AnalyzeResponse(raised, result) ==
    IF raised \/ result.status # "completed"
    THEN [status_code |-> 503, detail |-> Unavailable]
    ELSE [status_code |-> 202, detail |-> ""]

Response(routine, id, service, response) ==
    [routine |-> routine, id |-> id, service |-> service, state |-> "returned",
     status_code |-> response.status_code, detail |-> response.detail]

\* no epic analysis is between its two commits
NoAnalysisRunning ==
    IF call.routine = "trigger_epic_analysis" THEN call.state = "returned" ELSE TRUE

trigger_feature_analysis(feature_id, service) ==
    /\ NoAnalysisRunning
    /\ Len(reports) < MaxReports
    /\ IF feature_id \notin ExistingFeatures
       THEN /\ call' = Response("trigger_feature_analysis", feature_id, service,
                                [status_code |-> 404, detail |-> "Feature not found"])
            /\ UNCHANGED reports
       ELSE /\ call' = Response("trigger_feature_analysis", feature_id, service,
                                AnalyzeResponse(service.mode = "raises",
                                    analyze_feature(feature_id, service, reports).result))
            /\ reports' = IF service.mode = "raises" THEN reports
                          ELSE analyze_feature(feature_id, service, reports).reports
    /\ UNCHANGED <<features, epics, requests, trends, impacts, markets, snapshots,
                   scoring, documents, qa_pairs, session, handlers, analysis_cache,
                   now, epic_status>>

\* the ids of the features of an epic, in the order of the select
EpicFeatures(epic_id) ==
    SelectSeq([i \in 1..Len(features) |-> i], LAMBDA f : features[f].epic_id = epic_id)

\* the loop of analyze_epic: the reports table after the features' analyses
RECURSIVE EpicReports(_, _, _)
EpicReports(feature_ids, service, table) ==
    IF feature_ids = << >> THEN table
    ELSE EpicReports(Tail(feature_ids), service,
                     analyze_feature(Head(feature_ids), service, table).reports)

\* analyze_epic reports completed whatever the analyses of the features
\* returned, and failed when its loop raises
analyze_epic(epic_id, service) ==
    IF service.mode = "fails" THEN [status |-> "failed"]
    ELSE [status |-> "completed", features_analyzed |-> Len(EpicFeatures(epic_id))]

\* trigger_epic_analysis up to the commit of Analysis Pending, or to the
\* rejection of the request
trigger_epic_analysis_start(epic_id, service) ==
    /\ NoAnalysisRunning
    /\ IF epic_id \notin 1..Len(epics)
       THEN /\ call' = Response("trigger_epic_analysis", epic_id, service,
                                [status_code |-> 404, detail |-> "Epic not found"])
            /\ UNCHANGED epic_status
       ELSE IF EpicFeatures(epic_id) = << >>
       THEN /\ call' = Response("trigger_epic_analysis", epic_id, service,
                                [status_code |-> 400,
                                 detail |-> "Epic has no features to analyze"])
            /\ UNCHANGED epic_status
       ELSE /\ epic_status' = [epic_status EXCEPT ![epic_id] = "Analysis Pending"]
            /\ call' = [routine |-> "trigger_epic_analysis", id |-> epic_id,
                        service |-> service, state |-> "running",
                        status_code |-> 0, detail |-> ""]
    /\ UNCHANGED <<features, epics, requests, trends, impacts, markets, snapshots,
                   scoring, documents, qa_pairs, session, handlers, analysis_cache,
                   now, reports>>

\* the status the epic is committed with after the workflow: Analyzed after a
\* completed result, Draft after a failed one and, in the handler of
\* Exception, after an exception
FinalStatus_LeftPending(raised, result) ==
    IF raised THEN "Analysis Pending"
    ELSE IF result.status = "completed" THEN "Analyzed" ELSE "Draft"
FinalStatus(raised, result) ==
    IF raised THEN "Draft"
    ELSE IF result.status = "completed" THEN "Analyzed" ELSE "Draft"

\* the workflow and what follows it
trigger_epic_analysis_finish ==
    /\ call.routine = "trigger_epic_analysis"
    /\ call.state = "running"
    /\ Len(reports) + Len(EpicFeatures(call.id)) <= MaxReports
    /\ epic_status' =
          [epic_status EXCEPT ![call.id] =
              FinalStatus(call.service.mode = "raises",
                          analyze_epic(call.id, call.service))]
    /\ reports' = IF call.service.mode \in {"raises", "fails"} THEN reports
                  ELSE EpicReports(EpicFeatures(call.id), call.service, reports)
    /\ call' = Response("trigger_epic_analysis", call.id, call.service,
                        AnalyzeResponse(call.service.mode = "raises",
                                        analyze_epic(call.id, call.service)))
    /\ UNCHANGED <<features, epics, requests, trends, impacts, markets, snapshots,
                   scoring, documents, qa_pairs, session, handlers, analysis_cache,
                   now>>

NextAnalyze ==
    \/ \E f \in 1..2, service \in ServiceBehaviours : trigger_feature_analysis(f, service)
    \/ \E e \in 1..3, service \in ServiceBehaviours : trigger_epic_analysis_start(e, service)
    \/ trigger_epic_analysis_finish

SpecAnalyze == InitAnalyze /\ [][NextAnalyze]_vars


(***************************************************************************)
(* PriorityScoringService.get_feature_ranking.  The query names the column *)
(* PriorityScore.calculated_at; the priority_scores table has the columns  *)
(* of the class and the created_at and updated_at of the mixin every model *)
(* shares (the scores are read elsewhere as priority_score.created_at), so *)
(* the attribute lookup raises while the query is built.  calculated_at of *)
(* a row is modelled by its place in the table.                            *)
(***************************************************************************)
PriorityScoreColumns ==
    {"id", "feature_id", "final_score", "customer_impact_score", "trend_alignment_score",
     "business_impact_score", "market_opportunity_score", "segment_diversity_score",
     "calculation_metadata", "algorithm_version", "created_at", "updated_at"}

\* the rows joined to the latest calculation of their feature, of the epic asked for
LatestScores(epic_id) ==
    SelectSeq([i \in 1..Len(snapshots) |-> i],
              LAMBDA i : /\ \A j \in 1..Len(snapshots) :
                               snapshots[j].feature_id = snapshots[i].feature_id => j <= i
                         /\ epic_id # Null =>
                               features[snapshots[i].feature_id].epic_id = Val(epic_id))

\* ORDER BY final_score DESC
RECURSIVE OrderedByScore(_)
OrderedByScore(rows) ==
    IF rows = << >> THEN << >>
    ELSE LET best == CHOOSE i \in 1..Len(rows) :
                        \A j \in 1..Len(rows) :
                           \/ snapshots[rows[j]].final_score < snapshots[rows[i]].final_score
                           \/ /\ snapshots[rows[j]].final_score = snapshots[rows[i]].final_score
                              /\ i <= j
         IN  <<rows[best]>>
               \o OrderedByScore(SelectSeq(rows, LAMBDA r : r # rows[best]))

RankedFeatures(epic_id, limit) ==
    LET rows == OrderedByScore(LatestScores(epic_id))
        limited == SubSeq(rows, 1, IF limit < Len(rows) THEN limit ELSE Len(rows))
    IN  [idx \in 1..Len(limited) |->
            [rank |-> idx,
             feature_id |-> snapshots[limited[idx]].feature_id,
             priority_score |-> snapshots[limited[idx]].final_score,
             calculated_at |-> limited[idx]]]

RankingInput(epic_id, limit) == [epic_id |-> epic_id, limit |-> limit]

get_feature_ranking(epic_id, limit) ==
    /\ call' = IF "calculated_at" \in PriorityScoreColumns
               THEN [routine |-> "get_feature_ranking",
                     input |-> RankingInput(epic_id, limit),
                     raised |-> "",
                     ranked_features |-> RankedFeatures(epic_id, limit)]
               ELSE [routine |-> "get_feature_ranking",
                     input |-> RankingInput(epic_id, limit),
                     raised |-> "AttributeError",
                     ranked_features |-> << >>]
    /\ scoring' = NoScoring
    /\ UNCHANGED <<features, epics, requests, trends, impacts, markets, snapshots,
                   documents, qa_pairs, session, handlers, analysis_cache, now,
                   epic_status, reports>>

RankingLimits == 0..2

NextRanking ==
    \/ \E f \in FeatureIds, t \in TrendScores : InsertTrendAnalysis(f, t)
    \/ \E f \in FeatureIds : CalculatePriorityScore(f)
    \/ \E e \in {Null, Some(1)}, limit \in RankingLimits : get_feature_ranking(e, limit)

SpecRanking == Init /\ [][NextRanking]_vars


(***************************************************************************)
(* POST /features/{feature_id}/agent-analysis/{agent_type}: the module     *)
(* dictionary _analysis_cache, keyed by "{feature_id}_{agent_type}", and   *)
(* the wall clock, in hours.  analysis_cache holds one record per key.     *)
(***************************************************************************)
CACHE_DURATION_HOURS == 24

valid_agents ==
    {"trend_analyst", "competitive_analyst", "market_opportunity_analyst",
     "business_impact_analyst", "geographic_analyst"}

RequestedAgents == {"trend_analyst", "geographic_analyst", "priority_calculator"}

\* what get_agent and agent.run do: no agent, an exception, or a response
AgentOutcomes ==
    {[kind |-> "unavailable", content |-> ""], [kind |-> "raises", content |-> ""],
     [kind |-> "responds", content |-> "growing"], [kind |-> "responds", content |-> "stable"]}

CacheKey(feature_id, agent_type) == [feature_id |-> feature_id, agent_type |-> agent_type]

InCache(cache_key) == \E entry \in analysis_cache : entry.cache_key = cache_key

CachedResult(cache_key) == CHOOSE entry \in analysis_cache : entry.cache_key = cache_key

\* datetime.now() - cache_time < timedelta(hours=CACHE_DURATION_HOURS)
CacheValid_Inclusive(cached_at) == now - cached_at <= CACHE_DURATION_HOURS
CacheValid(cached_at) == now - cached_at < CACHE_DURATION_HOURS

\* _analysis_cache[cache_key] = cache_result
CacheStore(cache_key, analysis) ==
    {entry \in analysis_cache : entry.cache_key # cache_key}
      \cup {[cache_key |-> cache_key, analysis |-> analysis, cached_at |-> now]}

AgentResponse(feature_id, agent_type, force_refresh, status_code, cached, analysis, cached_at) ==
    [routine |-> "run_individual_agent_analysis", feature_id |-> feature_id,
     agent_type |-> agent_type, force_refresh |-> force_refresh,
     status_code |-> status_code, cached |-> cached, analysis |-> analysis,
     cached_at |-> cached_at]

run_individual_agent_analysis(feature_id, agent_type, force_refresh, agent) ==
    /\ IF agent_type \notin valid_agents
       THEN /\ call' = AgentResponse(feature_id, agent_type, force_refresh, 400, FALSE, "", Null)
            /\ UNCHANGED analysis_cache
       ELSE IF feature_id \notin ExistingFeatures
       THEN /\ call' = AgentResponse(feature_id, agent_type, force_refresh, 404, FALSE, "", Null)
            /\ UNCHANGED analysis_cache
       ELSE IF /\ ~force_refresh
               /\ InCache(CacheKey(feature_id, agent_type))
               /\ CacheValid(CachedResult(CacheKey(feature_id, agent_type)).cached_at)
       THEN /\ call' = AgentResponse(feature_id, agent_type, force_refresh, 200, TRUE,
                          CachedResult(CacheKey(feature_id, agent_type)).analysis,
                          Some(CachedResult(CacheKey(feature_id, agent_type)).cached_at))
            /\ UNCHANGED analysis_cache
       ELSE IF agent.kind = "responds"
       THEN /\ analysis_cache' = CacheStore(CacheKey(feature_id, agent_type), agent.content)
            /\ call' = AgentResponse(feature_id, agent_type, force_refresh, 200, FALSE,
                          agent.content, Some(now))
       ELSE /\ call' = AgentResponse(feature_id, agent_type, force_refresh, 500, FALSE, "", Null)
            /\ UNCHANGED analysis_cache
    /\ UNCHANGED <<features, epics, requests, trends, impacts, markets, snapshots, scoring,
                   documents, qa_pairs, session, handlers, now, epic_status, reports>>

\* time passes between two requests
Tick(hours) ==
    /\ now + hours <= MaxClock
    /\ now' = now + hours
    /\ UNCHANGED <<features, epics, requests, trends, impacts, markets, snapshots, scoring,
                   documents, qa_pairs, session, call, handlers, analysis_cache,
                   epic_status, reports>>

NextCache ==
    \/ \E f \in FeatureIds, a \in RequestedAgents, force_refresh \in BOOLEAN,
          agent \in AgentOutcomes : run_individual_agent_analysis(f, a, force_refresh, agent)
    \/ \E hours \in {12, 24} : Tick(hours)

SpecCache == Init /\ [][NextCache]_vars


(***************************************************************************)
(* EmbeddingService.generate_embedding called again and again by one       *)
(* service, whose dimension is settings.EMBEDDING_DIMENSION at its         *)
(* construction.  call keeps the result of every call made so far.         *)
(***************************************************************************)
EMBEDDING_DIMENSION == 384

ConfiguredDimensions == {4, 8, EMBEDDING_DIMENSION}

EmbeddedTexts == QueryTexts \cup {<< >>, PdfExportTitle, AuditLogCapitalTitle}

\* pad or truncate to match expected dimension
PadOrTruncate(embedding, dimension) ==
    IF Len(embedding) < dimension
    THEN embedding \o [i \in 1..(dimension - Len(embedding)) |-> 0]
    ELSE SubSeq(embedding, 1, dimension)

_generate_simple_embedding_Clocked(text, dimension) ==
    PadOrTruncate(<<now>> \o Tail(GenerateSimpleEmbedding(text)), dimension)
_generate_simple_embedding(text, dimension) ==
    PadOrTruncate(GenerateSimpleEmbedding(text), dimension)

InitEmbedding ==
    /\ features = Corpus
    /\ epics = <<"Reporting">>
    /\ requests = << >>
    /\ trends = << >>
    /\ impacts = << >>
    /\ markets = << >>
    /\ snapshots = << >>
    /\ scoring = NoScoring
    /\ documents = << >>
    /\ qa_pairs = << >>
    /\ session = Idle
    /\ \E dimension \in ConfiguredDimensions :
          call = [routine |-> "EmbeddingService", dimension |-> dimension,
                  text |-> Null, repeated |-> FALSE, results |-> {}]
    /\ handlers = << >>
    /\ analysis_cache = {}
    /\ now = 0
    /\ epic_status = <<"Draft">>
    /\ reports = << >>

generate_embedding(text) ==
    /\ call' = [routine |-> "generate_embedding",
                dimension |-> call.dimension,
                text |-> Some(text),
                repeated |-> \E r \in call.results : r.text = text,
                results |-> call.results
                              \cup {[text |-> text,
                                     embedding |-> _generate_simple_embedding(text, call.dimension)]}]
    /\ UNCHANGED <<features, epics, requests, trends, impacts, markets, snapshots, scoring,
                   documents, qa_pairs, session, handlers, analysis_cache, now,
                   epic_status, reports>>

NextEmbedding ==
    \/ \E text \in EmbeddedTexts : generate_embedding(text)
    \/ \E hours \in {12} : Tick(hours)

SpecEmbedding == InitEmbedding /\ [][NextEmbedding]_vars


(***************************************************************************)
(* Properties of the scoring engine.                                       *)
(***************************************************************************)
Scored == scoring.status = "ok"
\* the row the run that has just returned persisted
LastSnapshot == snapshots[Len(snapshots)]

ComponentFields == {"customer_impact_score", "trend_alignment_score",
                    "business_impact_score", "market_opportunity_score",
                    "segment_diversity_score"}

\* C1: every component score and the final score of every persisted snapshot
\* lie in [0, 100] (columns are in tenths).
C1_ScoreBounds ==
    \A i \in 1..Len(snapshots) :
        /\ \A c \in ComponentFields : snapshots[i][c] >= 0 /\ snapshots[i][c] <= 1000
        /\ snapshots[i].final_score >= 0 /\ snapshots[i].final_score <= 1000

\* the weighted sum of the stored components under the stored weights
StoredWeightedSum(row) ==
    LET w == row.calculation_metadata.weights
    IN  RatAdd(RatMul(Rat(row.customer_impact_score, 10), w["customer_impact"]),
        RatAdd(RatMul(Rat(row.trend_alignment_score, 10), w["trend_alignment"]),
        RatAdd(RatMul(Rat(row.business_impact_score, 10), w["business_impact"]),
        RatAdd(RatMul(Rat(row.market_opportunity_score, 10), w["market_opportunity"]),
               RatMul(Rat(row.segment_diversity_score, 10), w["segment_diversity"])))))

\* C2: the stored final score of every snapshot equals exactly the sum of its
\* stored components times its stored weights.
C2_FinalIsWeightedSum ==
    \A i \in 1..Len(snapshots) :
        RatEq(Rat(snapshots[i].final_score, 10), StoredWeightedSum(snapshots[i]))

NoInputs(feature_id) ==
    /\ RowsOf(requests, feature_id) = << >>
    /\ RowsOf(trends, feature_id) = << >>
    /\ RowsOf(impacts, feature_id) = << >>
    /\ RowsOf(markets, feature_id) = << >>

DefaultComponents(row) ==
    /\ row.customer_impact_score = 0
    /\ row.trend_alignment_score = 500
    /\ row.business_impact_score = 500
    /\ row.market_opportunity_score = 500
    /\ row.segment_diversity_score = 0

\* C5 as amended: a feature with no analysis signal and no linked request is
\* scored 32.5, from the components 0, 50, 50, 50 and 0.
C5_DefaultAbsorption ==
    (Scored /\ NoInputs(scoring.feature_id)) =>
        /\ LastSnapshot.feature_id = scoring.feature_id
        /\ DefaultComponents(LastSnapshot)
        /\ LastSnapshot.final_score = 325

\* C5 as stated: that score is 30.0.
C5_DefaultIsThirty ==
    (Scored /\ NoInputs(scoring.feature_id)) =>
        /\ DefaultComponents(LastSnapshot)
        /\ LastSnapshot.final_score = 300

C5_Witness ==
    /\ Scored
    /\ NoInputs(scoring.feature_id)
    /\ TotalRows > 1
    /\ LastSnapshot.final_score = 325

\* C7: when a Trend signal with a score is present, the TrendAlignment component
\* is that score on the 0-100 scale (alignment_score x 100, trend_score x 10);
\* 50 is used only when no Trend signal is present.
C7_TrendAlignment ==
    Scored =>
        LET trend_analysis == Latest(trends, scoring.feature_id)
        IN  IF IsNull(trend_analysis) THEN RatEq(scoring.trend_score, RatInt(50))
            ELSE IF IsNull(Val(trend_analysis).trend_score) THEN TRUE
            ELSE RatEq(scoring.trend_score,
                       RatInt(Val(Val(trend_analysis).trend_score)))

\* C8: when a BusinessImpact signal with a score is present, the BusinessImpact
\* component is that score unchanged; 50 is used only when no signal is present.
C8_BusinessImpact ==
    Scored =>
        LET business_analysis == Latest(impacts, scoring.feature_id)
        IN  IF IsNull(business_analysis) THEN RatEq(scoring.business_score, RatInt(50))
            ELSE IF IsNull(Val(business_analysis).impact_score) THEN TRUE
            ELSE RatEq(scoring.business_score,
                       RatInt(Val(Val(business_analysis).impact_score)))

SegmentWeightTimes2(segment) ==
    CASE segment = "Small" -> 2
      [] segment = "Medium" -> 5
      [] segment = "Large" -> 10
      [] segment = "Enterprise" -> 20
      [] OTHER -> 2

UrgencyMultiplierTimes2(urgency) ==
    CASE urgency = "Low" -> 1
      [] urgency = "Medium" -> 2
      [] urgency = "High" -> 3
      [] urgency = "Critical" -> 4
      [] OTHER -> 2

\* 4 x the sum over the first k linked requests of segment_weight x urgency_multiplier
RECURSIVE RawImpactTimes4(_, _)
RawImpactTimes4(rows, k) ==
    IF k = 0 THEN 0
    ELSE RawImpactTimes4(rows, k - 1)
         + SegmentWeightTimes2(CustomerSegmentOf[rows[k].customer_id])
             * UrgencyMultiplierTimes2(rows[k].urgency)

LinkedKinds(feature_id) ==
    LET rows == RowsOf(requests, feature_id)
    IN  {<<CustomerSegmentOf[rows[i].customer_id], rows[i].urgency>> : i \in 1..Len(rows)}

\* C6: CustomerImpact = min(5 x sum of segment_weight x urgency_multiplier over
\* the linked requests, 100); 0 without linked requests; 100 for one
\* Enterprise/Critical plus one Small/Low request.
C6_CustomerImpact ==
    Scored =>
        LET rows == RowsOf(requests, scoring.feature_id)
            raw4 == RawImpactTimes4(rows, Len(rows))
        IN  /\ scoring.customer_score.n * 4
                   = (IF 5 * raw4 > 400 THEN 400 ELSE 5 * raw4) * scoring.customer_score.d
            /\ rows = << >> => scoring.customer_score.n = 0
            /\ (Len(rows) = 2 /\ LinkedKinds(scoring.feature_id)
                                    = {<<"Enterprise", "Critical">>, <<"Small", "Low">>})
                  => scoring.customer_score = RatInt(100)

C6_Witness ==
    /\ Scored
    /\ Len(RowsOf(requests, scoring.feature_id)) = 2
    /\ LinkedKinds(scoring.feature_id) = {<<"Enterprise", "Critical">>, <<"Small", "Low">>}
    /\ scoring.customer_score = RatInt(100)
    /\ LastSnapshot.customer_impact_score = 1000

SegmentsRequesting(feature_id) ==
    {s \in CustomerSegment :
        \E i \in 1..Len(requests) :
            /\ requests[i].feature_id = feature_id
            /\ CustomerSegmentOf[requests[i].customer_id] = s}

\* C10: SegmentDiversity = min(25 x number of distinct segments among the linked
\* requests, 100): 0 without requests, 100 once all four segments requested.
C10_SegmentDiversity ==
    Scored =>
        LET k == Cardinality(SegmentsRequesting(scoring.feature_id))
        IN  /\ scoring.diversity_score = RatInt(IF 25 * k > 100 THEN 100 ELSE 25 * k)
            /\ RowsOf(requests, scoring.feature_id) = << >>
                  => scoring.diversity_score = RatInt(0)
            /\ SegmentsRequesting(scoring.feature_id) = CustomerSegment
                  => scoring.diversity_score = RatInt(100)

C10_Witness ==
    /\ Scored
    /\ SegmentsRequesting(scoring.feature_id) = CustomerSegment
    /\ scoring.diversity_score = RatInt(100)
    /\ LastSnapshot.segment_diversity_score = 1000


(***************************************************************************)
(* Properties of the RFP endpoints.                                        *)
(***************************************************************************)
\* a handler is about to run an iteration of its loop
Resolving ==
    /\ session.state = "running"
    /\ session.idx < (IF session.handler = "process_rfp_file"
                      THEN Len(session.file) ELSE Len(session.pairs))
\* the pair of that iteration and the threshold it is matched with
ResolvedPair ==
    IF session.handler = "process_rfp_file"
    THEN session.file[session.idx + 1]
    ELSE qa_pairs[session.pairs[session.idx + 1]]
ResolvedThreshold ==
    IF session.handler = "process_rfp_file" THEN file_threshold ELSE similarity_threshold
\* the row the pair of that iteration has in qa_pairs afterwards
ResolvedRow ==
    IF session.handler = "process_rfp_file"
    THEN Len(qa_pairs) + 1
    ELSE session.pairs[session.idx + 1]

PairSimilarity(f) ==
    CosineSimilarity(GenerateEmbedding(ResolvedPair.question \o <<" ">> \o ResolvedPair.answer),
                     GenerateEmbedding(FeatureText(features[f])))
\* the features that reach the threshold, and those of them no other one exceeds
Candidates ==
    {f \in 1..Len(features) : /\ features[f].description # << >>
                              /\ SimAtLeast(PairSimilarity(f), ResolvedThreshold)}
TopCandidates ==
    {f \in Candidates : \A g \in Candidates : ~SimLess(PairSimilarity(f), PairSimilarity(g))}

\* the iteration links its pair to the feature f and counts it there, and to
\* nothing else
LinkedTo(f) ==
    /\ session'.state = "running"
    /\ session'.linked = Append(session.linked, f)
    /\ features' = [features EXCEPT ![f].customer_request_count = @ + 1]
    /\ qa_pairs'[ResolvedRow].feature_id = Some(f)

\* the handler has ended, by its last commit or by a failure
RunEnds == session.state = "running" /\ session'.state = "idle"

NumberLinkedTo(f) == Cardinality({i \in 1..Len(session.linked) : session.linked[i] = f})

\* what the database holds after the handler: every feature it held before
\* with one more request per pair linked to it, and the features created
LinksPersisted ==
    /\ Len(features') = Len(session.committed.features) + session.created
    /\ \A f \in 1..Len(session.committed.features) :
          features'[f].customer_request_count =
              session.committed.features[f].customer_request_count + NumberLinkedTo(f)

\* C3: a request resolved while some feature reaches the threshold is attached
\* to a top candidate: no feature is created, the request count of that
\* feature goes up by exactly one and no other count changes; and when the
\* handler has ended the database holds exactly that, one more request on a
\* feature per request attached to it.
C3_AttachToTopCandidate ==
    [][/\ (Resolving /\ session.link /\ Candidates # {}) =>
              \E f \in TopCandidates : LinkedTo(f)
       /\ RunEnds => LinksPersisted]_vars

\* the iteration creates a feature
CreateStep ==
    /\ Resolving
    /\ session'.state = "running"
    /\ Len(features') = Len(features) + 1
CreatedTitle == features'[Len(features')].title

\* the words of a question from its first word that is no question word on
RemainingWords(question) ==
    LET words == StrSplit(question)
        kept == {i \in 1..Len(words) : StrLower(words[i]) \notin question_words}
    IN  IF kept = {} THEN << >> ELSE SubSeq(words, SetMin(kept), Len(words))

\* the question without its leading question words and its trailing
\* punctuation, the first letter capitalized
CleanQuestion(question) ==
    Capitalize(StripTrailingPunctuation(StrJoin(<<" ">>, RemainingWords(question))))

\* the clean question as a title: cut when longer than TitleMaxLength, replaced
\* when empty
TitleOf(question) ==
    IF CleanQuestion(question) = << >> THEN DefaultTitle
    ELSE IF Len(CleanQuestion(question)) > TitleMaxLength
    THEN SubSeq(CleanQuestion(question), 1, TitleKeptLength) \o Ellipsis
    ELSE CleanQuestion(question)

\* Export reports to PDF
ExportTitle ==
    <<"E", "x", "p", "o", "r", "t", " ", "r", "e", "p", "o", "r", "t", "s",
      " ", "t", "o", " ", "P", "D", "F">>

\* We export reports to PDF
WeExportTitle ==
    <<"W", "e", " ", "e", "x", "p", "o", "r", "t", " ", "r", "e", "p", "o",
      "r", "t", "s", " ", "t", "o", " ", "P", "D", "F">>

SumOfWeights(weights) ==
    RatAdd(weights["customer_impact"],
    RatAdd(weights["trend_alignment"],
    RatAdd(weights["business_impact"],
    RatAdd(weights["market_opportunity"], weights["segment_diversity"]))))

\* the weighted sum of the components of the run that has just returned
SumWith(weights) ==
    RatAdd(RatMul(scoring.customer_score, weights["customer_impact"]),
    RatAdd(RatMul(scoring.trend_score, weights["trend_alignment"]),
    RatAdd(RatMul(scoring.business_score, weights["business_impact"]),
    RatAdd(RatMul(scoring.market_score, weights["market_opportunity"]),
           RatMul(scoring.diversity_score, weights["segment_diversity"])))))

\* C11: the five weights sum to exactly 1: those every snapshot records, and
\* those every scoring run weighs its components with, which are the ones its
\* snapshot records.
C11_WeightsSumToOne ==
    /\ \A i \in 1..Len(snapshots) :
          /\ DOMAIN snapshots[i].calculation_metadata.weights = WeightNames
          /\ RatEq(SumOfWeights(snapshots[i].calculation_metadata.weights), RatInt(1))
    /\ Scored => RatEq(scoring.final_score,
                       SumWith(LastSnapshot.calculation_metadata.weights))

\* a run whose components differ, so that the weights matter
C11_Witness ==
    /\ Scored
    /\ ~RatEq(scoring.customer_score, scoring.trend_score)
    /\ ~RatEq(scoring.market_score, scoring.business_score)

\* a call of calculate_priority_score has just returned or raised
ScoringStep == scoring'.status # "none"

\* C12: calculate_priority_score fails if and only if the feature does not
\* exist: for a missing feature it raises and persists no snapshot, for an
\* existing feature it returns a snapshot whatever signals and requests there
\* are.
C12_FailsOnlyOnMissingFeature ==
    [][ScoringStep =>
          IF scoring'.feature_id \in ExistingFeatures
          THEN scoring'.status = "ok" /\ Len(snapshots') = Len(snapshots) + 1
          ELSE scoring'.status = "raised" /\ snapshots' = snapshots]_vars

\* the last row a table holds for the feature
LastRowOf(table, feature_id) ==
    RowsOf(table, feature_id)[Len(RowsOf(table, feature_id))]

\* the components the latest rows alone give
TrendOf(row) ==
    IF IsNull(row.trend_score) \/ Val(row.trend_score) = 0 THEN RatInt(50)
    ELSE Rat(Val(row.trend_score), 1)
ImpactOf(row) ==
    IF IsNull(row.impact_score) \/ Val(row.impact_score) = 0 THEN RatInt(50)
    ELSE RatInt(Val(row.impact_score))
MarketOf(row) ==
    IF IsNull(row.total_competitors_analyzed) \/ Val(row.total_competitors_analyzed) = 0
    THEN RatInt(50)
    ELSE Rat(100 * Val(row.competitors_not_providing), Val(row.total_competitors_analyzed))

\* C13: a scoring run computes the TrendAlignment, BusinessImpact and
\* MarketOpportunity components from the most recently created signal of each
\* kind only, whatever older signals of that kind the feature has.
C13_LatestSignalOnly ==
    Scored =>
        /\ RowsOf(trends, scoring.feature_id) # << >> =>
              RatEq(scoring.trend_score, TrendOf(LastRowOf(trends, scoring.feature_id)))
        /\ RowsOf(impacts, scoring.feature_id) # << >> =>
              RatEq(scoring.business_score, ImpactOf(LastRowOf(impacts, scoring.feature_id)))
        /\ RowsOf(markets, scoring.feature_id) # << >> =>
              RatEq(scoring.market_score, MarketOf(LastRowOf(markets, scoring.feature_id)))

\* a run on a feature with two signals of a kind that would score differently
C13_Witness ==
    /\ Scored
    /\ \/ /\ Len(RowsOf(trends, scoring.feature_id)) = 2
          /\ ~RatEq(TrendOf(RowsOf(trends, scoring.feature_id)[1]),
                    TrendOf(RowsOf(trends, scoring.feature_id)[2]))
       \/ /\ Len(RowsOf(impacts, scoring.feature_id)) = 2
          /\ ~RatEq(ImpactOf(RowsOf(impacts, scoring.feature_id)[1]),
                    ImpactOf(RowsOf(impacts, scoring.feature_id)[2]))

\* C14: snapshots are append-only: a successful run adds exactly one snapshot,
\* which carries the weights and the algorithm version used, a run that raises
\* adds none, and no operation changes an earlier snapshot; a scoring run
\* leaves the features as they are.
C14_AppendOnly ==
    [][/\ SubSeq(snapshots', 1, Len(snapshots)) = snapshots
       /\ ScoringStep =>
             /\ features' = features
             /\ IF scoring'.status = "ok"
                THEN /\ Len(snapshots') = Len(snapshots) + 1
                     /\ snapshots'[Len(snapshots')].feature_id = scoring'.feature_id
                     /\ snapshots'[Len(snapshots')].algorithm_version = "1.0"
                     /\ snapshots'[Len(snapshots')].calculation_metadata =
                            [weights |-> WEIGHTS, algorithm_version |-> "1.0"]
                ELSE snapshots' = snapshots]_vars

\* a second snapshot of a feature next to its first one, which differs
C14_Witness ==
    /\ Scored
    /\ Len(snapshots) >= 2
    /\ snapshots[1].feature_id = snapshots[2].feature_id
    /\ snapshots[1].final_score # snapshots[2].final_score


(***************************************************************************)
(* Further properties of the RFP endpoints.                                *)
(***************************************************************************)
\* C15: a request whose text is empty after normalization is rejected: no
\* feature is created from it and none counts it, so that once its handler has
\* ended the pair of the request has no feature.
C15_EmptyRequestRejected ==
    session = Idle =>
        \A p \in 1..Len(qa_pairs) :
            StrStrip(qa_pairs[p].question) = << >> => qa_pairs[p].feature_id = Null

\* the iteration links its pair to a feature
LinkStep ==
    /\ Resolving
    /\ session'.state = "running"
    /\ Len(session'.linked) = Len(session.linked) + 1

\* C16: a request that was attached to a feature and is resolved again, no
\* feature having been added or edited in between, is attached to the same
\* feature: the attach, which only counts the request, does not change what
\* the next resolution selects.
C16_SameFeatureTwice ==
    [][(/\ LinkStep
        /\ session.handler = "process_document"
        /\ qa_pairs[ResolvedRow].feature_id # Null) =>
           qa_pairs'[ResolvedRow].feature_id = qa_pairs[ResolvedRow].feature_id]_vars


(***************************************************************************)
(* Properties of the matcher's routines.                                   *)
(***************************************************************************)
ScoreEqual(x, y) == ~ScoreLess(x, y) /\ ~ScoreLess(y, x)

SimEqual(x, y) == ~SimLess(x, y) /\ ~SimLess(y, x)

\* C17: the candidate list a routine returns is sorted by score descending,
\* and among candidates of equal score the earliest-created one comes first:
\* the lower index in the list of embeddings, the lower feature id in the table.
C17_SortedTiesEarliestFirst ==
    /\ call.routine = "find_similar_embeddings" =>
          \A i, j \in 1..Len(call.result) :
             i < j =>
               /\ ~ScoreLess(call.result[i].similarity, call.result[j].similarity)
               /\ ScoreEqual(call.result[i].similarity, call.result[j].similarity)
                     => call.result[i].idx < call.result[j].idx
    /\ call.routine = "find_similar_features" =>
          \A i, j \in 1..Len(call.result) :
             i < j =>
               /\ ~SimLess(call.result[i].similarity, call.result[j].similarity)
               /\ SimEqual(call.result[i].similarity, call.result[j].similarity)
                     => call.result[i].feature_id < call.result[j].feature_id

\* The part of C17 that is about find_similar_embeddings alone.
C17_EmbeddingsPart ==
    call.routine = "find_similar_embeddings" =>
       \A i, j \in 1..Len(call.result) :
          i < j =>
            /\ ~ScoreLess(call.result[i].similarity, call.result[j].similarity)
            /\ ScoreEqual(call.result[i].similarity, call.result[j].similarity)
                  => call.result[i].idx < call.result[j].idx

\* a call of find_similar_embeddings that returned two candidates of different scores
C17_EmbeddingsReordered ==
    /\ call.routine = "find_similar_embeddings"
    /\ Len(call.result) = 2
    /\ call.result[1].idx > call.result[2].idx

\* the score (cos + 1) / 2 is exactly the threshold
ScoreIs(x, threshold) ==
    /\ ~x.nan
    /\ (x.dot >= 0) = (2 * threshold.n >= threshold.d)
    /\ x.dot * x.dot * threshold.d * threshold.d
         = (2 * threshold.n - threshold.d) * (2 * threshold.n - threshold.d) * x.sq1 * x.sq2

\* the indexes of the embeddings whose score passes the threshold of the call
Passing ==
    {i - 1 : i \in {j \in 1..Len(call.embeddings) :
                      ScoreAtLeast(compute_similarity(call.query_embedding,
                                                      call.embeddings[j]),
                                   call.threshold)}}

Returned == {call.result[i].idx : i \in 1..Len(call.result)}

Min(a, b) == IF a <= b THEN a ELSE b

\* C18: find_similar_embeddings returns only candidates whose score is at
\* least the threshold, each with its own score and once, at most top_k of
\* them, as many as pass the threshold up to top_k, none of those left out
\* scoring higher than one returned; a candidate whose score is exactly the
\* threshold passes.  find_similar_features, which has no top_k, returns only
\* candidates whose similarity is at least the threshold.
C18_ThresholdAndTopK ==
    /\ call.routine = "find_similar_embeddings" =>
          /\ \A i \in 1..Len(call.result) :
                /\ call.result[i].idx + 1 \in 1..Len(call.embeddings)
                /\ call.result[i].similarity
                     = compute_similarity(call.query_embedding,
                                          call.embeddings[call.result[i].idx + 1])
                /\ ScoreAtLeast(call.result[i].similarity, call.threshold)
          /\ Cardinality(Returned) = Len(call.result)
          /\ Len(call.result) <= call.top_k
          /\ Len(call.result) = Min(call.top_k, Cardinality(Passing))
          /\ \A i \in 1..Len(call.embeddings) :
                ScoreIs(compute_similarity(call.query_embedding, call.embeddings[i]),
                        call.threshold)
                  => i - 1 \in Passing
          /\ \A i \in 1..Len(call.result), j \in Passing \ Returned :
                ~ScoreLess(call.result[i].similarity,
                           compute_similarity(call.query_embedding, call.embeddings[j + 1]))
    /\ call.routine = "find_similar_features" =>
          \A i \in 1..Len(call.result) :
             SimAtLeast(call.result[i].similarity, call.threshold)

\* a call that returned a candidate whose score is exactly the threshold and
\* left out, for top_k, another one that passed
C18_Witness ==
    /\ call.routine = "find_similar_embeddings"
    /\ \E i \in 1..Len(call.result) : ScoreIs(call.result[i].similarity, call.threshold)
    /\ Passing \ Returned # {}
    /\ Len(call.result) = call.top_k

\* C19: for the same query vector, list of embeddings and top_k, a call of
\* find_similar_embeddings whose threshold is at least the threshold of the
\* call before it returns no more candidates than that call did.
C19_ThresholdMonotone ==
    (/\ call.routine = "find_similar_embeddings"
     /\ call.before # Null
     /\ RatLe(Val(call.before).threshold, call.threshold))
        => Len(call.result) <= Val(call.before).count

\* a call with a higher threshold that returned fewer candidates than the one before
C19_Witness ==
    /\ call.routine = "find_similar_embeddings"
    /\ call.before # Null
    /\ RatLt(Val(call.before).threshold, call.threshold)
    /\ Len(call.result) < Val(call.before).count
    /\ Len(call.result) > 0

ZeroNorm(vec) == Dot(vec, vec) = 0

\* C20: a similarity computed with a vector of zero norm is the value 0.0,
\* in compute_similarity and in _cosine_similarity (neither raises: every
\* call returns a value).
C20_ZeroNormYieldsZero ==
    /\ (/\ call.routine = "compute_similarity"
        /\ ZeroNorm(call.embedding1) \/ ZeroNorm(call.embedding2))
          => ScoreIs(call.result, Rat(0, 1))
    /\ (/\ call.routine = "_cosine_similarity"
        /\ ZeroNorm(call.vec1) \/ ZeroNorm(call.vec2))
          => call.result.dot = 0

\* The part of C20 that is about _cosine_similarity alone.
C20_CosinePart ==
    (/\ call.routine = "_cosine_similarity"
     /\ ZeroNorm(call.vec1) \/ ZeroNorm(call.vec2))
       => call.result.dot = 0

\* _cosine_similarity was called with a zero vector and another one that is not
C20_CosineCalledWithZero ==
    /\ call.routine = "_cosine_similarity"
    /\ ZeroNorm(call.vec1) # ZeroNorm(call.vec2)

(***************************************************************************)
(* Properties of the feature endpoints.                                    *)
(***************************************************************************)
\* C21: every feature's normalized_text is the lower-cased concatenation of
\* its current title and its current description (nothing, or the empty
\* text, for a feature without description).
C21_NormalizedTextCurrent ==
    \A f \in 1..Len(features) :
       \/ features[f].normalized_text
            = StrLower(features[f].title \o <<" ">> \o OrEmpty(features[f].description))
       \/ /\ features[f].description = Null
          /\ features[f].normalized_text = StrLower(features[f].title)

\* The part of C21 that is about features with a description.
C21_DescribedPart ==
    \A f \in 1..Len(features) :
       features[f].description # Null =>
          features[f].normalized_text
            = StrLower(features[f].title \o <<" ">> \o Val(features[f].description))

\* a feature whose title and description both differ from the ones it was
\* created with, beside a feature created from a question/answer pair
C21_DescribedUpdated ==
    /\ Len(features) = 2
    /\ features[1].title = AuditLogCapitalTitle
    /\ features[1].description = Some(PdfExportDescription)
    /\ features[2].epic_id = 2

\* C22: when two request handlers that attach to, or record a request for,
\* the same feature have both committed, the feature's
\* customer_request_count is exactly 2 higher than before, whatever the
\* order of their steps.
C22_NoLostUpdate ==
    (/\ Len(handlers) = 2
     /\ handlers[1].committed
     /\ handlers[2].committed
     /\ handlers[1].feature_id = handlers[2].feature_id)
       => features[handlers[1].feature_id].customer_request_count
            = Corpus[handlers[1].feature_id].customer_request_count + 2

\* The part of C22 that is about handlers one after the other: the second
\* loads the row after the first has committed.
C22_SerialPart ==
    (/\ Len(handlers) = 2
     /\ handlers[1].committed
     /\ handlers[2].committed
     /\ handlers[1].feature_id = handlers[2].feature_id
     /\ handlers[2].customer_request_count
          = Corpus[handlers[1].feature_id].customer_request_count + 1)
       => features[handlers[1].feature_id].customer_request_count
            = Corpus[handlers[1].feature_id].customer_request_count + 2

\* two handlers for the same feature have committed one after the other
C22_SerialCommitted ==
    /\ Len(handlers) = 2
    /\ handlers[1].committed
    /\ handlers[2].committed
    /\ handlers[1].feature_id = handlers[2].feature_id
    /\ handlers[2].customer_request_count = 1

(***************************************************************************)
(* Properties of the aggregation of the workflow results.                  *)
(***************************************************************************)
WellFormed == {"result", "section"}
Malformed == {"unparseable", "bad_section", "text_value"}

KindSet == {Kinds[i] : i \in 1..Len(Kinds)}

\* the report stored last holds what the well-formed output of the kind says
StoredFor(kind) ==
    /\ reports # << >>
    /\ reports[Len(reports)].feature_id = call.feature_id
    /\ kind = "trend" => reports[Len(reports)].trend_alignment_status
    /\ kind = "business" => reports[Len(reports)].business_impact_score = Some(75)
    /\ kind = "competitive" => reports[Len(reports)].total_competitors_analyzed = 2
    /\ kind = "geographic" => reports[Len(reports)].geographic_insights
                                 = Some([total_market_size |-> 1500])

HasData(kind) ==
    IF kind = "trend" THEN call.result.has_trend_data
    ELSE IF kind = "business" THEN call.result.has_business_data
    ELSE IF kind = "competitive" THEN call.result.has_competitive_data
    ELSE call.result.has_geographic_data

\* C23: when the output of a kind is malformed or cannot be parsed, the
\* aggregation returns (it never raises), that kind is treated as absent,
\* and the well-formed outputs of the other kinds are collected and stored.
C23_TolerantAggregation ==
    (/\ call.routine = "_process_workflow_results"
     /\ \E kind \in KindSet : call.outcomes[kind] \in Malformed)
       => /\ call.result.stored
          /\ \A kind \in KindSet :
                /\ HasData(kind) = (call.outcomes[kind] \in WellFormed)
                /\ call.outcomes[kind] \in WellFormed => StoredFor(kind)

\* The part of C23 that is about outputs that cannot be parsed: a string
\* without results, a section whose score is not a number.
C23_UnparseablePart ==
    (/\ call.routine = "_process_workflow_results"
     /\ \E kind \in KindSet : call.outcomes[kind] \in Malformed
     /\ \A kind \in KindSet : call.outcomes[kind] # "text_value")
       => /\ call.result.stored
          /\ \A kind \in KindSet :
                /\ HasData(kind) = (call.outcomes[kind] \in WellFormed)
                /\ call.outcomes[kind] \in WellFormed => StoredFor(kind)

\* a report stored from a response with a section that does not parse, a
\* string without results and two well-formed results
C23_UnparseableSkipped ==
    /\ call.routine = "_process_workflow_results"
    /\ call.outcomes.trend = "bad_section"
    /\ call.outcomes.geographic = "unparseable"
    /\ call.outcomes.business = "result"
    /\ call.outcomes.competitive = "result"
    /\ call.result.stored
    /\ Len(reports) = 1

(***************************************************************************)
(* Properties of the analyze endpoints.                                    *)
(***************************************************************************)
\* the service call of the request that has returned failed: it raised, or
\* it reported a failed result
ServiceFailed ==
    \/ call.service.mode = "raises"
    \/ call.service.mode = "fails"
    \/ /\ call.routine = "trigger_feature_analysis"
       /\ call.service.mode = "workflow_raises"

C25_EpicFailed ==
    /\ call.routine = "trigger_epic_analysis"
    /\ call.state = "returned"
    /\ call.service.mode = "fails"
    /\ call.status_code = 503

C28_NeverLeftPending ==
    \A e \in 1..Len(epics) :
       epic_status[e] = "Analysis Pending" =>
          /\ call.routine = "trigger_epic_analysis"
          /\ call.state = "running"
          /\ call.id = e

RankingStep ==
    /\ call'.routine = "get_feature_ranking"
    /\ scoring' = NoScoring
    /\ UNCHANGED <<features, requests, trends, impacts, markets, snapshots>>

ScoredFeatures == {snapshots[i].feature_id : i \in 1..Len(snapshots)}

LatestSnapshot(f) ==
    CHOOSE i \in 1..Len(snapshots) :
       /\ snapshots[i].feature_id = f
       /\ \A j \in 1..Len(snapshots) : snapshots[j].feature_id = f => j <= i

\* C29: get_feature_ranking returns at most `limit` entries, one per scored
\* feature and no more, each with the final score of the feature's latest
\* snapshot, ordered by final score descending, the ranks numbered 1..n.
C29_RankingOfLatestScores ==
    [][RankingStep =>
          /\ call'.raised = ""
          /\ Len(call'.ranked_features) <= call'.input.limit
          /\ call'.input.epic_id = Null =>
                Len(call'.ranked_features)
                  = Min(call'.input.limit, Cardinality(ScoredFeatures))
          /\ \A i \in 1..Len(call'.ranked_features) :
                /\ call'.ranked_features[i].rank = i
                /\ call'.ranked_features[i].feature_id \in ScoredFeatures
                /\ call'.ranked_features[i].priority_score
                     = snapshots[LatestSnapshot(call'.ranked_features[i].feature_id)].final_score
                /\ \A j \in 1..Len(call'.ranked_features) :
                      /\ i < j => call'.ranked_features[i].priority_score
                                    >= call'.ranked_features[j].priority_score
                      /\ i # j => call'.ranked_features[i].feature_id
                                    # call'.ranked_features[j].feature_id]_vars

(***************************************************************************)
(* Properties of the agent analysis cache.                                 *)
(***************************************************************************)
\* a step of run_individual_agent_analysis that passed the two validations
AgentAnalysisStep ==
    /\ now' = now
    /\ call'.routine = "run_individual_agent_analysis"
    /\ call'.status_code \in {200, 500}

RequestedKey == [feature_id |-> call'.feature_id, agent_type |-> call'.agent_type]

FreshEntries ==
    {entry \in analysis_cache : entry.cache_key = RequestedKey /\ now - entry.cached_at < 24}

OtherEntries == {entry \in analysis_cache : entry.cache_key # RequestedKey}

\* C30: the cached analysis is returned only when force_refresh is false and
\* the cache holds an entry of the same (feature_id, agent_type) less than 24
\* hours old, and then it is that entry's analysis; otherwise the agent runs
\* and its analysis overwrites the entry; a failed run leaves the cache as
\* it was.
C30_CacheHitOnlyWhenFresh ==
    [][AgentAnalysisStep =>
          IF ~call'.force_refresh /\ FreshEntries # {}
          THEN /\ call'.status_code = 200
               /\ call'.cached
               /\ \E entry \in FreshEntries :
                     /\ call'.analysis = entry.analysis
                     /\ call'.cached_at = Some(entry.cached_at)
               /\ analysis_cache' = analysis_cache
          ELSE /\ ~call'.cached
               /\ IF call'.status_code = 200
                  THEN analysis_cache'
                         = OtherEntries
                             \cup {[cache_key |-> RequestedKey, analysis |-> call'.analysis,
                                    cached_at |-> now]}
                  ELSE analysis_cache' = analysis_cache]_vars

\* a request without force_refresh ran the agent and stored its analysis, a day
\* after the start, while another feature's entry is 12 hours old
C30_Witness ==
    /\ call.routine = "run_individual_agent_analysis"
    /\ call.status_code = 200
    /\ ~call.force_refresh
    /\ ~call.cached
    /\ now >= 24
    /\ \E entry \in analysis_cache :
          /\ entry.cache_key = [feature_id |-> call.feature_id, agent_type |-> call.agent_type]
          /\ entry.cached_at = now
    /\ \E entry \in analysis_cache :
          /\ entry.cache_key.feature_id # call.feature_id
          /\ now - entry.cached_at = 12

C26_ProcessingPart ==
    session.state = "running" =>
       documents[session.document_id].processed_status = "Processing"

C26_RunHandlingPairs ==
    /\ session.state = "running"
    /\ session.handler = "process_document"
    /\ session.idx > 0

\* C26: a run sets the document to Processing before it handles a pair, and
\* when no run is under way every document is Complete, or Failed with the
\* error recorded: no run ends with its document left in Processing.
C26_RunEndsCompleteOrFailed ==
    /\ session.state = "running" =>
          documents[session.document_id].processed_status = "Processing"
    /\ session = Idle =>
          \A d \in 1..Len(documents) :
             /\ documents[d].processed_status \in {"Complete", "Failed"}
             /\ documents[d].processed_status = "Failed" => documents[d].error

(***************************************************************************)
(* Properties of the request count against the request records.            *)
(***************************************************************************)
LinkedRequests(f) == {i \in 1..Len(requests) : requests[i].feature_id = f}

\* C27: whatever features are created and requests attached, the
\* customer_request_count of every feature is at least the number of
\* FeatureRequest records linked to it.
C27_CountCoversRequests ==
    \A f \in ExistingFeatures :
       features[f].customer_request_count >= Cardinality(LinkedRequests(f))

====
